---- MODULE Spec2Model ----
(***************************************************************************)
(* State-machine model of the kimchitether arbitrage bot:                  *)
(*   - RiskManager            (src/src/utils/risk_manager.py)              *)
(*   - ExchangeRateProvider   (src/src/utils/exchange_rate.py)             *)
(*   - PremiumCalculator      (src/src/utils/premium_calculator.py)        *)
(*   - Forward/Reverse strategies (src/src/strategies/*.py)                *)
(*   - ArbitrageTradingBot    (src/main.py)                                *)
(*                                                                         *)
(* Money is in scaled units (1 unit = max_single_trade_krw of the          *)
(* configuration); rates are exact rationals [n, d] with d > 0.            *)
(***************************************************************************)
EXTENDS Integers, Sequences, FiniteSets, TLC

VARIABLES
    \* ---- RiskManager (risk_manager.py:35-49)
    active_trades,      \* dict trade_id -> entry; a function on a subset of TradeIds
    daily_metrics,      \* TradingMetrics record
    last_reset_date,    \* date of the last daily reset
    \* ---- environment clock seen by datetime.now().date()
    today,
    \* ---- observation of the last can_execute_trade / check_emergency_stop call:
    \*      its argument and the pair it returned
    lastOpp,
    lastResult,
    stopReported,       \* some check_emergency_stop call has returned tripped
    \* ---- concurrent callers of the RiskManager (SpecConc)
    callerPc,           \* caller -> "idle" | "approved" | "registered" | "done"
    callerOpp,          \* caller -> the opportunity it asked admission for
    \* ---- ArbitrageTradingBot (main.py:126-129) and its tasks
    dry_run,            \* config.dry_run: paper trading
    running,            \* self.running
    shutdown_in_progress, \* self._shutdown_in_progress
    botPhase,           \* "created" | "started" | "ended" (stop() has returned)
    oppPc,              \* position of the _check_arbitrage_opportunities task
    metricsPc,          \* position of the _update_metrics task
    coinIdx,            \* index of the coin the opportunity loop is at
    tradeSeq,           \* trades started so far; the current trade's id
    \* ---- the strategy's trade_record of the trade in flight
    trade_record,       \* [id, opportunity, status, steps, stepIdx] or NoTrade
    statusHist,         \* the values 'status' has taken, in order
    polls,              \* sleeps the current transfer wait has made
    initial_balance,    \* the wait's initial_balance
    dest_balance,       \* destination balance of the asset in transfer,
                        \* relative to its value when the withdrawal was made
    timedOutStep,       \* index of the step whose wait raised TimeoutError, or 0
    completeEffects,    \* register_trade_complete calls that found the current
                        \* trade in the ledger
    lastComplete,       \* arguments of the orchestrator's last register_trade_complete
    \* ---- ExchangeRateProvider (exchange_rate.py:10-13) and its clock
    now,                \* time.time(), in ticks of 300 s
    cache,              \* self._cache["USD_KRW"], None while the key is absent
    last_update,        \* self._last_update["USD_KRW"]
    fetched_at,         \* when the cached value was fetched from a provider
    rateObs,            \* observation of the last get_usd_krw_rate call
    premObs,            \* observation of the last PremiumCalculator call
    \* ---- observation of the last check_slippage call
    slippage_call,      \* its arguments and the pair it returned
    \* ---- the orchestrator's failure bookkeeping (main.py:132-134) and its
    \*      _monitor_premiums task
    orderbook_failure_counts, \* dict coin -> count; a function on a set of coins
    failed_orderbook_coins,   \* set of coins the loops skip
    premPc,             \* position of the _monitor_premiums task
    premIdx,            \* index of the coin its for loop is at
    data_failures,      \* coin -> consecutive snapshots of the coin in which a
                        \* venue request for its market data failed
    \* ---- the monitored universe (main.py:128, 219-270)
    monitor_list,       \* self.monitor_coins
    iter_list,          \* the list object the opportunity loop's for statement
                        \* iterates
    listPc,             \* position of the _update_coin_list_periodically task
    lastMarkets,        \* the venues' listings the last initialisation or
                        \* refresh of the coin list read
    venue_markets,      \* what the venues' market listings answer now
    \* ---- VirtualBalanceManager (virtual_balance_manager.py:73-104)
    vbm,                \* [balances, trades, transfers, trade_counter,
                        \* transfer_counter] of the manager in memory
    state_file,         \* the JSON document in self.state_file, NoFile while
                        \* the file does not exist
    sim_result,         \* observation: how the last operation called on the
                        \* manager ended, "ok" | "refused" | "raised"
    \* ---- the RiskManager's lock and the calls in progress (SpecLock)
    lock_locked,        \* self._lock.locked()
    lockPc,             \* caller -> "idle" | "waiting" | "entered" | "reset_done"
    lockOp,             \* caller -> the operation it called, with its arguments
                        \* and the date its daily reset read
    entry_rm,           \* the RiskManager's fields when the lock was last taken
    \* ---- main() (main.py:561-591) and what stop() has done so far
    mainPc,             \* "await_bot" | "exited" (the process has exited)
    signals,            \* shutdown signals received
    stop_effects,       \* [cancels, reports]: task.cancel() calls made and
                        \* runs of the performance-report block of stop()
    \* ---- what the reverse pre-flight meets (reverse_arbitrage.py:90-118)
    provider_answers,   \* the three rate providers' answers to its request
    binance_usdt_free,  \* EX-U's free USDT, in thousandths of the USDT worth
                        \* of one unit of KRW at rate 1
    prior_deposit,      \* EX-K's recent deposit history of the transferred
                        \* asset holds an accepted deposit, made before the
                        \* trade, of at least the transferred amount
    market_fill,        \* ticks by which the venues fill a market order
                        \* worse than the price of 1000 ticks quoted to the
                        \* step: above it for a buy, below it for a sell
    \* ---- observation of the last withdrawal a strategy step issued
    withdraw_call       \* the step, the asset, the free balance it read and
                        \* the amount it asked the venue to withdraw

riskVars == <<active_trades, daily_metrics, last_reset_date>>
obsVars  == <<lastOpp, lastResult, stopReported>>
concVars == <<callerPc, callerOpp>>
botVars  == <<dry_run, running, shutdown_in_progress, botPhase, oppPc, metricsPc,
              coinIdx, tradeSeq>>
rateVars == <<now, cache, last_update, fetched_at, rateObs, premObs>>
tradeVars == <<trade_record, statusHist, polls, initial_balance, dest_balance,
               timedOutStep, completeEffects, lastComplete>>
monVars  == <<slippage_call, orderbook_failure_counts, failed_orderbook_coins,
              premPc, premIdx, data_failures>>
listVars == <<monitor_list, iter_list, listPc, lastMarkets, venue_markets>>
stratVars == <<provider_answers, binance_usdt_free, prior_deposit, market_fill,
               withdraw_call>>
mainVars == <<mainPc, signals, stop_effects>>
lockVars == <<lock_locked, lockPc, lockOp, entry_rm>>
simVars == <<vbm, state_file, sim_result>>
vars     == <<active_trades, daily_metrics, last_reset_date, today,
              lastOpp, lastResult, stopReported, callerPc, callerOpp,
              dry_run, running, shutdown_in_progress, botPhase, oppPc, metricsPc,
              coinIdx, tradeSeq,
              trade_record, statusHist, polls, initial_balance, dest_balance,
              timedOutStep, completeEffects, lastComplete,
              now, cache, last_update, fetched_at, rateObs, premObs,
              slippage_call, orderbook_failure_counts, failed_orderbook_coins,
              premPc, premIdx, data_failures,
              monitor_list, iter_list, listPc, lastMarkets, venue_markets,
              provider_answers, binance_usdt_free, prior_deposit, market_fill,
              withdraw_call,
              mainPc, signals, stop_effects,
              lock_locked, lockPc, lockOp, entry_rm,
              vbm, state_file, sim_result>>

(***************************************************************************)
(* Bounds of the model                                                     *)
(***************************************************************************)
MaxDays     == 1      \* local-date changes explored
MaxTrades   == 2      \* register_trade_start calls explored per day (SpecRisk),
                      \* trades the orchestrator starts (SpecBot)
TimeoutPolls == 2     \* sleeps of a transfer wait until its ceiling has elapsed
MaxTime     == 14     \* clock ticks explored (ExchangeRateProvider)

(***************************************************************************)
(* RiskLimits: the configuration (config.py get_risk_limits), scaled       *)
(***************************************************************************)
max_single_trade_krw        == 1
max_daily_volume_krw        == 4
max_concurrent_trades       == 3
emergency_stop_loss_percent == 30
max_exposure_percent        == 75

(***************************************************************************)
(* ExchangeRateProvider: its two ages, in ticks of 300 s                   *)
(***************************************************************************)
cache_duration == 1      \* 300 s, config.exchange_rate_cache_duration
StaleCeiling   == 12     \* 3600 s, the age below which a stale value is used

\* the callers' trade ids: as many as trades may run concurrently
TradeIds == 1..max_concurrent_trades
\* concurrent callers: one more than the trades that may run concurrently
Callers  == 1..(max_concurrent_trades + 1)
None     == "None"
\* the tasks that call the locked operations: the opportunity task
\* (main.py:331-408) and the metrics task (main.py:416)
LockCallers == {1, 2}

(***************************************************************************)
(* Exact rational arithmetic for Decimal rates: [n |-> num, d |-> den>0]   *)
(***************************************************************************)
Rat(n, d)   == [n |-> n, d |-> d]
RECURSIVE GCD(_, _)
GCD(a, b)   == IF b = 0 THEN a ELSE GCD(b, a % b)
RNorm(a)    == LET g == GCD(IF a.n < 0 THEN -a.n ELSE a.n, a.d)
               IN  [n |-> a.n \div g, d |-> a.d \div g]
LCM(a, b)   == (a \div GCD(a, b)) * b
RAdd(a, b)  == LET d == LCM(a.d, b.d)
               IN  RNorm([n |-> a.n * (d \div a.d) + b.n * (d \div b.d), d |-> d])
RNeg(a)     == [n |-> -a.n, d |-> a.d]
RSub(a, b)  == RAdd(a, RNeg(b))
RAbs(a)     == IF a.n < 0 THEN RNeg(a) ELSE a
RMulInt(a, k) == RNorm([n |-> a.n * k, d |-> a.d])
RDivInt(a, k) == RNorm([n |-> a.n, d |-> a.d * k])
RGt(a, b)   == a.n * b.d > b.n * a.d
RLe(a, b)   == a.n * b.d <= b.n * a.d
RZero       == [n |-> 0, d |-> 1]

(***************************************************************************)
(* ArbitrageOpportunity (premium_calculator.py:33-47)                      *)
(***************************************************************************)
net_profit_rate(opp) ==
    RSub(RSub(opp.expected_profit, opp.total_fees), opp.safety_margin)

Opportunity(coin, dir, amt, profit, fees, margin) ==
    [coin_symbol      |-> coin,
     direction        |-> dir,
     trade_amount_krw |-> amt,
     expected_profit  |-> profit,
     total_fees       |-> fees,
     safety_margin    |-> margin]

\* Opportunities handed to the RiskManager by its callers: sizes at, and one
\* unit above, the single-trade limit; net profit rate 0 (boundary) or > 0.
Amounts == {max_single_trade_krw, max_single_trade_krw + 1}
OppInputs ==
    { Opportunity("BTC", "forward", a, Rat(p, 1), Rat(1, 1), Rat(1, 1)) :
        a \in Amounts, p \in {2, 3} }
\* Opportunities a caller registers: those with a positive net profit rate
StartInputs == { o \in OppInputs : RGt(net_profit_rate(o), RZero) }
ProfitInputs == {-1, 1}
NoOpp == [coin_symbol |-> None]

\* the None a rate function returns when it has no rate
NoRate == -1

\* no call observed
NoObs == [op |-> None]

\* no register_trade_complete call made yet
NoComplete == [trade_id |-> 0]

\* no trade_record exists yet
NoTrade == [id |-> 0]

\* the amount a transfer wait expects, in units of the transferred asset
TransferAmount == 1

(***************************************************************************)
(* ExchangeRateProvider.get_usd_krw_rate (exchange_rate.py:15-71) as a     *)
(* function of the provider's state p, the time t and the providers'       *)
(* answers                                                                 *)
(***************************************************************************)
\* what one provider function returns (exchange_rate.py:73-129): a rate, or
\* None after any failure
ProviderResults == {NoRate, 1, 2}

\* the results the three providers would give to one call, in the order
\* Dunamu, exchangerate-api, fixer
FetchInputs == ProviderResults \X ProviderResults \X ProviderResults

\* 'if rate:' (exchange_rate.py:25, 31, 37)
Truthy(rate) == rate # NoRate /\ rate # 0

\* exchange_rate.py:62-67
is_cache_valid(p, t) ==
    /\ p.cache # NoRate
    /\ t - p.last_update < cache_duration

\* exchange_rate.py:69-71
update_cache(p, value, t) ==
    [cache |-> value, last_update |-> t, fetched_at |-> t]

\* providers consulted until the first one that returns a rate
FirstSuccess(fetch) ==
    IF Truthy(fetch[1]) THEN 1
    ELSE IF Truthy(fetch[2]) THEN 2
    ELSE IF Truthy(fetch[3]) THEN 3
    ELSE 0

RateResult(p, rate, source, consulted) ==
    [p |-> p, rate |-> rate, source |-> source, consulted |-> consulted]

\* Mutant of get_usd_krw_rate: a stale return refreshes the timestamp.
get_usd_krw_rate_refreshing_stale(p, t, fetch) ==
    IF is_cache_valid(p, t)
    THEN RateResult(p, p.cache, "cache", 0)
    ELSE IF FirstSuccess(fetch) # 0
    THEN RateResult(update_cache(p, fetch[FirstSuccess(fetch)], t),
                    fetch[FirstSuccess(fetch)], "provider", FirstSuccess(fetch))
    ELSE IF p.cache # NoRate /\ t - p.last_update < StaleCeiling
    THEN RateResult([p EXCEPT !.last_update = t], p.cache, "stale", 3)
    ELSE RateResult(p, NoRate, "unavailable", 3)

\* Mutant of get_usd_krw_rate: a cached value is returned as stale whatever
\* its age.
get_usd_krw_rate_stale_at_any_age(p, t, fetch) ==
    IF is_cache_valid(p, t)
    THEN RateResult(p, p.cache, "cache", 0)
    ELSE IF FirstSuccess(fetch) # 0
    THEN RateResult(update_cache(p, fetch[FirstSuccess(fetch)], t),
                    fetch[FirstSuccess(fetch)], "provider", FirstSuccess(fetch))
    ELSE IF p.cache # NoRate
    THEN RateResult(p, p.cache, "stale", 3)
    ELSE RateResult(p, NoRate, "unavailable", 3)

\* exchange_rate.py:15-60; the stale return is told apart from the others
\* only by the warning it logs (exchange_rate.py:45)
get_usd_krw_rate(p, t, fetch) ==
    IF is_cache_valid(p, t)
    THEN RateResult(p, p.cache, "cache", 0)
    ELSE IF FirstSuccess(fetch) # 0
    THEN RateResult(update_cache(p, fetch[FirstSuccess(fetch)], t),
                    fetch[FirstSuccess(fetch)], "provider", FirstSuccess(fetch))
    ELSE IF p.cache # NoRate /\ t - p.last_update < StaleCeiling
    THEN RateResult(p, p.cache, "stale", 3)
    ELSE RateResult(p, NoRate, "unavailable", 3)

(***************************************************************************)
(* RiskManager as a value: the fields the operations read and write        *)
(***************************************************************************)
RM == [active_trades   |-> active_trades,
       daily_metrics   |-> daily_metrics,
       last_reset_date |-> last_reset_date]

ZeroMetrics(exposure) ==
    [daily_volume_krw     |-> 0,
     daily_profit_krw     |-> 0,
     daily_loss_krw       |-> 0,
     total_trades         |-> 0,
     successful_trades    |-> 0,
     failed_trades        |-> 0,
     current_exposure_krw |-> exposure]

Abs(x) == IF x < 0 THEN -x ELSE x

RECURSIVE SumAmounts(_, _)
SumAmounts(f, ids) ==
    IF ids = {} THEN 0
    ELSE LET i == CHOOSE x \in ids : TRUE
         IN  f[i].opportunity.trade_amount_krw + SumAmounts(f, ids \ {i})

LedgerSum(rm) == SumAmounts(rm.active_trades, DOMAIN rm.active_trades)

\* Mutant of check_daily_reset: the roll also clears the exposure.
check_daily_reset_clearing_exposure(rm, current_date) ==
    IF current_date > rm.last_reset_date
    THEN [rm EXCEPT !.daily_metrics = ZeroMetrics(0),
                    !.last_reset_date = current_date]
    ELSE rm

\* risk_manager.py:206-220
check_daily_reset(rm, current_date) ==
    IF current_date > rm.last_reset_date
    THEN [rm EXCEPT !.daily_metrics =
                        ZeroMetrics(rm.daily_metrics.current_exposure_krw),
                    !.last_reset_date = current_date]
    ELSE rm

\* risk_manager.py:202-204; compared without dividing:
\*   x > max_daily * (percent / 100)  <=>  x * 100 > max_daily * percent
ExceedsMaxExposure(x) == x * 100 > max_daily_volume_krw * max_exposure_percent

\* Mutant of AdmissionChecks: the single-trade size is tested before the
\* number of concurrent trades.
AdmissionChecks_size_first(rm, opp) ==
    IF opp.trade_amount_krw > max_single_trade_krw
    THEN <<FALSE, "Trade amount exceeds single trade limit">>
    ELSE IF Cardinality(DOMAIN rm.active_trades) >= max_concurrent_trades
    THEN <<FALSE, "Maximum concurrent trades reached">>
    ELSE IF rm.daily_metrics.daily_volume_krw + opp.trade_amount_krw
                > max_daily_volume_krw
    THEN <<FALSE, "Trade would exceed daily volume limit">>
    ELSE IF ExceedsMaxExposure(rm.daily_metrics.current_exposure_krw
                                   + opp.trade_amount_krw)
    THEN <<FALSE, "Trade would exceed maximum exposure limit">>
    ELSE IF RLe(net_profit_rate(opp), RZero)
    THEN <<FALSE, "Trade opportunity no longer profitable">>
    ELSE <<TRUE, "Trade approved">>

\* Mutant of AdmissionChecks: an amount equal to the single-trade limit is
\* rejected as well.
AdmissionChecks_rejecting_at_limit(rm, opp) ==
    IF Cardinality(DOMAIN rm.active_trades) >= max_concurrent_trades
    THEN <<FALSE, "Maximum concurrent trades reached">>
    ELSE IF opp.trade_amount_krw >= max_single_trade_krw
    THEN <<FALSE, "Trade amount exceeds single trade limit">>
    ELSE IF rm.daily_metrics.daily_volume_krw + opp.trade_amount_krw
                > max_daily_volume_krw
    THEN <<FALSE, "Trade would exceed daily volume limit">>
    ELSE IF ExceedsMaxExposure(rm.daily_metrics.current_exposure_krw
                                   + opp.trade_amount_krw)
    THEN <<FALSE, "Trade would exceed maximum exposure limit">>
    ELSE IF RLe(net_profit_rate(opp), RZero)
    THEN <<FALSE, "Trade opportunity no longer profitable">>
    ELSE <<TRUE, "Trade approved">>

\* Mutant of AdmissionChecks: the concurrency limit is tested after the size
\* and the profitability of the opportunity.
AdmissionChecks_concurrency_last(rm, opp) ==
    IF opp.trade_amount_krw > max_single_trade_krw
    THEN <<FALSE, "Trade amount exceeds single trade limit">>
    ELSE IF rm.daily_metrics.daily_volume_krw + opp.trade_amount_krw
                > max_daily_volume_krw
    THEN <<FALSE, "Trade would exceed daily volume limit">>
    ELSE IF ExceedsMaxExposure(rm.daily_metrics.current_exposure_krw
                                   + opp.trade_amount_krw)
    THEN <<FALSE, "Trade would exceed maximum exposure limit">>
    ELSE IF RLe(net_profit_rate(opp), RZero)
    THEN <<FALSE, "Trade opportunity no longer profitable">>
    ELSE IF Cardinality(DOMAIN rm.active_trades) >= max_concurrent_trades
    THEN <<FALSE, "Maximum concurrent trades reached">>
    ELSE <<TRUE, "Trade approved">>

\* risk_manager.py:56-78, evaluated on the state left by the daily reset
AdmissionChecks(rm, opp) ==
    IF Cardinality(DOMAIN rm.active_trades) >= max_concurrent_trades
    THEN <<FALSE, "Maximum concurrent trades reached">>
    ELSE IF opp.trade_amount_krw > max_single_trade_krw
    THEN <<FALSE, "Trade amount exceeds single trade limit">>
    ELSE IF rm.daily_metrics.daily_volume_krw + opp.trade_amount_krw
                > max_daily_volume_krw
    THEN <<FALSE, "Trade would exceed daily volume limit">>
    ELSE IF ExceedsMaxExposure(rm.daily_metrics.current_exposure_krw
                                   + opp.trade_amount_krw)
    THEN <<FALSE, "Trade would exceed maximum exposure limit">>
    ELSE IF RLe(net_profit_rate(opp), RZero)
    THEN <<FALSE, "Trade opportunity no longer profitable">>
    ELSE <<TRUE, "Trade approved">>

\* Mutant of can_execute_trade: an approval reserves the amount as exposure.
can_execute_trade_reserving(rm, opp, current_date) ==
    LET r   == check_daily_reset(rm, current_date)
        res == AdmissionChecks(r, opp)
    IN  [rm     |-> IF res[1]
                    THEN [r EXCEPT !.daily_metrics.current_exposure_krw =
                                       @ + opp.trade_amount_krw]
                    ELSE r,
         result |-> res]

\* risk_manager.py:51-78: the state after the call and the returned pair
can_execute_trade(rm, opp, current_date) ==
    LET r == check_daily_reset(rm, current_date)
    IN  [rm |-> r, result |-> AdmissionChecks(r, opp)]

\* risk_manager.py:80-88
register_trade_start(rm, trade_id, opp) ==
    [rm EXCEPT
        !.active_trades =
            [i \in (DOMAIN rm.active_trades) \cup {trade_id} |->
                IF i = trade_id
                THEN [opportunity |-> opp, status |-> "active"]
                ELSE rm.active_trades[i]],
        !.daily_metrics.current_exposure_krw = @ + opp.trade_amount_krw,
        !.daily_metrics.total_trades = @ + 1]

\* Mutant of register_trade_complete: the result of every successful trade
\* goes to daily_profit_krw, whatever its sign.
register_trade_complete_success_is_profit(rm, trade_id, profit_krw, success) ==
    IF trade_id \notin DOMAIN rm.active_trades
    THEN rm
    ELSE LET trade == rm.active_trades[trade_id]
             amt   == trade.opportunity.trade_amount_krw
         IN  [rm EXCEPT
                !.active_trades =
                    [i \in (DOMAIN rm.active_trades) \ {trade_id} |->
                        rm.active_trades[i]],
                !.daily_metrics.current_exposure_krw = @ - amt,
                !.daily_metrics.daily_volume_krw = @ + amt,
                !.daily_metrics.successful_trades =
                    IF success THEN @ + 1 ELSE @,
                !.daily_metrics.failed_trades =
                    IF success THEN @ ELSE @ + 1,
                !.daily_metrics.daily_profit_krw =
                    IF success THEN @ + profit_krw ELSE @,
                !.daily_metrics.daily_loss_krw =
                    IF success THEN @ ELSE @ + Abs(profit_krw)]

\* Mutant of register_trade_complete: a trade id that is not in the ledger
\* is counted as a finished trade of amount 0.
register_trade_complete_counting_unknown(rm, trade_id, profit_krw, success) ==
    LET known == trade_id \in DOMAIN rm.active_trades
        amt   == IF known
                 THEN rm.active_trades[trade_id].opportunity.trade_amount_krw
                 ELSE 0
    IN  [rm EXCEPT
           !.active_trades =
               [i \in (DOMAIN rm.active_trades) \ {trade_id} |->
                   rm.active_trades[i]],
           !.daily_metrics.current_exposure_krw = @ - amt,
           !.daily_metrics.daily_volume_krw = @ + amt,
           !.daily_metrics.successful_trades =
               IF success THEN @ + 1 ELSE @,
           !.daily_metrics.failed_trades =
               IF success THEN @ ELSE @ + 1,
           !.daily_metrics.daily_profit_krw =
               IF success /\ profit_krw > 0 THEN @ + profit_krw ELSE @,
           !.daily_metrics.daily_loss_krw =
               IF success /\ profit_krw > 0 THEN @ ELSE @ + Abs(profit_krw)]

\* risk_manager.py:90-112
register_trade_complete(rm, trade_id, profit_krw, success) ==
    IF trade_id \notin DOMAIN rm.active_trades
    THEN rm
    ELSE LET trade == rm.active_trades[trade_id]
             amt   == trade.opportunity.trade_amount_krw
         IN  [rm EXCEPT
                !.active_trades =
                    [i \in (DOMAIN rm.active_trades) \ {trade_id} |->
                        rm.active_trades[i]],
                !.daily_metrics.current_exposure_krw = @ - amt,
                !.daily_metrics.daily_volume_krw = @ + amt,
                !.daily_metrics.successful_trades =
                    IF success THEN @ + 1 ELSE @,
                !.daily_metrics.failed_trades =
                    IF success THEN @ ELSE @ + 1,
                !.daily_metrics.daily_profit_krw =
                    IF success /\ profit_krw > 0 THEN @ + profit_krw ELSE @,
                !.daily_metrics.daily_loss_krw =
                    IF success /\ profit_krw > 0 THEN @ ELSE @ + Abs(profit_krw)]

\* Mutant of check_emergency_stop: the failure-rate test starts at 10 trades.
check_emergency_stop_from_ten_trades(rm) ==
    LET m == rm.daily_metrics
    IN  IF m.daily_volume_krw > 0
           /\ m.daily_loss_krw * 100 > emergency_stop_loss_percent * m.daily_volume_krw
        THEN <<TRUE, "Emergency stop triggered: Daily loss exceeds limit">>
        ELSE IF m.total_trades >= 10
                /\ m.failed_trades * 100 > 50 * m.total_trades
        THEN <<TRUE, "Emergency stop triggered: High failure rate">>
        ELSE <<FALSE, "System operating normally">>

\* risk_manager.py:114-128; rates compared without dividing:
\*   loss / volume * 100 > limit   <=>  loss * 100 > limit * volume   (volume > 0)
\*   failed / total * 100 > 50     <=>  failed * 100 > 50 * total     (total > 0)
check_emergency_stop(rm) ==
    LET m == rm.daily_metrics
    IN  IF m.daily_volume_krw > 0
           /\ m.daily_loss_krw * 100 > emergency_stop_loss_percent * m.daily_volume_krw
        THEN <<TRUE, "Emergency stop triggered: Daily loss exceeds limit">>
        ELSE IF m.total_trades > 10
                /\ m.failed_trades * 100 > 50 * m.total_trades
        THEN <<TRUE, "Emergency stop triggered: High failure rate">>
        ELSE <<FALSE, "System operating normally">>

\* risk_manager.py:130-151: the state after the call (the daily reset is its
\* only write)
get_trading_metrics(rm, current_date) == check_daily_reset(rm, current_date)

SetRM(rm) ==
    /\ active_trades'   = rm.active_trades
    /\ daily_metrics'   = rm.daily_metrics
    /\ last_reset_date' = rm.last_reset_date

\* config.monitor_coins (config.py:24) as the deployment sets it
monitor_coins == <<"BTC", "XRP">>

\* the configured coins as a set (main.py:230, 261)
Coins == {monitor_coins[i] : i \in 1..Len(monitor_coins)}

\* BinanceClient.get_usdt_markets as its callers use it (main.py:223, 250):
\* the symbols of EX-U's USDT markets as a set, or the call raises.  A
\* listing is a record: the markets returned, or ok = FALSE for a raise.
UsdtMarketResults ==
    {[ok |-> TRUE, markets |-> {"BTCUSDT", "ETHUSDT", "XRPUSDT"}],
     [ok |-> TRUE, markets |-> {"BTCUSDT", "ETHUSDT"}],
     [ok |-> FALSE]}

\* the listings of both venues while every market is listed: EX-U's USDT
\* symbols and the coins of EX-K's KRW markets in the venue's order
\* (upbit_client.py:393-428)
FullMarkets ==
    [usdt |-> [ok |-> TRUE, markets |-> {"BTCUSDT", "ETHUSDT", "XRPUSDT"}],
     krw  |-> [ok |-> TRUE, markets |-> <<"BTC", "ETH", "XRP">>]]

\* the listings of both venues at one moment
MarketInputs == {[FullMarkets EXCEPT !.usdt = u] : u \in UsdtMarketResults}

(***************************************************************************)
(* VirtualBalanceManager (virtual_balance_manager.py).  Amounts are whole  *)
(* numbers of scaled units; the state file holds them as the decimal       *)
(* strings str() gives, and Decimal() reads them back.                     *)
(***************************************************************************)
\* the largest amount a balance takes
MaxBalance == 4

\* str(Decimal) and Decimal(str) on the amounts of the model
DecimalToStr(d) == ToString(d)
StrToDecimal(str) == CHOOSE d \in 0..MaxBalance : ToString(d) = str

Exchanges == {"binance", "upbit"}
Assets == {"USDT", "BTC"}

\* no state file exists
NoFile == [exists |-> FALSE]

\* VirtualBalance(asset, available), locked defaulting to 0
\* (virtual_balance_manager.py:11-16)
VirtualBalance(available, locked) == [available |-> available, locked |-> locked]

\* main.py:62-77, scaled: the paper account starts with USDT on EX-U only
initial_balances ==
    [e \in Exchanges |->
        [a \in Assets |-> IF e = "binance" /\ a = "USDT" THEN 2 ELSE 0]]

\* __init__ without a state file, and reset_state before its save
\* (virtual_balance_manager.py:85-101, 391-405)
NewManager(initial) ==
    [balances |-> [e \in Exchanges |->
                      [a \in Assets |-> VirtualBalance(initial[e][a], 0)]],
     trades |-> << >>,
     transfers |-> << >>,
     trade_counter |-> 0,
     transfer_counter |-> 0]

\* virtual_balance_manager.py:340-361, to_dict of the log entries included
save_state(m) ==
    [exists |-> TRUE,
     balances |-> [e \in Exchanges |-> [a \in Assets |->
                      [available |-> DecimalToStr(m.balances[e][a].available),
                       locked    |-> DecimalToStr(m.balances[e][a].locked)]]],
     trades |-> [i \in 1..Len(m.trades) |->
                    [m.trades[i] EXCEPT !.quantity = DecimalToStr(@)]],
     transfers |-> [i \in 1..Len(m.transfers) |->
                       [m.transfers[i] EXCEPT !.amount = DecimalToStr(@)]],
     trade_counter |-> m.trade_counter,
     transfer_counter |-> m.transfer_counter]

\* virtual_balance_manager.py:363-389 on a freshly constructed manager: the
\* balances and the counters are read, the logs are not
load_state(file) ==
    [balances |-> [e \in Exchanges |-> [a \in Assets |->
                      VirtualBalance(StrToDecimal(file.balances[e][a].available),
                                     StrToDecimal(file.balances[e][a].locked))]],
     trades |-> << >>,
     transfers |-> << >>,
     trade_counter |-> file.trade_counter,
     transfer_counter |-> file.transfer_counter]

\* the outcome of an operation: the manager after it, whether it reached
\* its save_state call and whether it ended in an exception
Saved(m) == [m |-> m, saved |-> TRUE, raised |-> FALSE]
Refused(m) == [m |-> m, saved |-> FALSE, raised |-> FALSE]
Raised(m) == [m |-> m, saved |-> FALSE, raised |-> TRUE]

\* virtual_balance_manager.py:112-121
lock_balance(m, exchange, asset, amount) ==
    IF m.balances[exchange][asset].available < amount
    THEN Refused(m)
    ELSE Saved([m EXCEPT !.balances[exchange][asset].available = @ - amount,
                         !.balances[exchange][asset].locked = @ + amount])

\* virtual_balance_manager.py:123-132
unlock_balance(m, exchange, asset, amount) ==
    IF m.balances[exchange][asset].locked < amount
    THEN Refused(m)
    ELSE Saved([m EXCEPT !.balances[exchange][asset].locked = @ - amount,
                         !.balances[exchange][asset].available = @ + amount])

\* Mutant of execute_trade: a buy does not compare the quote balance with
\* the cost and the fee.
execute_trade_unchecked_buy(m, exchange, side, quantity, fee_rate) ==
    LET total_cost == 1 * quantity
        fee == total_cost * fee_rate
    IN  IF side = "buy"
        THEN Saved([m EXCEPT
                 !.balances[exchange]["USDT"].available = @ - (total_cost + fee),
                 !.balances[exchange]["BTC"].available = @ + quantity,
                 !.trade_counter = @ + 1])
        ELSE IF m.balances[exchange]["BTC"].available < quantity
        THEN Refused(m)
        ELSE Saved([m EXCEPT
                 !.balances[exchange]["BTC"].available = @ - quantity,
                 !.balances[exchange]["USDT"].available = @ + (total_cost - fee),
                 !.trade_counter = @ + 1])

\* virtual_balance_manager.py:134-238 for a market of BTC against USDT at
\* price 1: total_cost = price * quantity, fee = total_cost * fee_rate; a
\* buy pays the cost and the fee, a sell receives the cost less the fee
execute_trade(m, exchange, side, quantity, fee_rate) ==
    LET total_cost == 1 * quantity
        fee == total_cost * fee_rate
        entry == [trade_id |-> "SIM_" \o exchange \o "_"
                                  \o ToString(m.trade_counter + 1),
                  exchange |-> exchange, side |-> side,
                  quantity |-> quantity, total_cost |-> total_cost,
                  fee |-> fee]
    IN  IF side = "buy"
        THEN IF m.balances[exchange]["USDT"].available < total_cost + fee
             THEN Refused(m)
             ELSE Saved([m EXCEPT
                      !.balances[exchange]["USDT"].available = @ - (total_cost + fee),
                      !.balances[exchange]["BTC"].available = @ + quantity,
                      !.trade_counter = @ + 1,
                      !.trades = Append(@, entry)])
        ELSE IF m.balances[exchange]["BTC"].available < quantity
             THEN Refused(m)
             ELSE Saved([m EXCEPT
                      !.balances[exchange]["BTC"].available = @ - quantity,
                      !.balances[exchange]["USDT"].available = @ + (total_cost - fee),
                      !.trade_counter = @ + 1,
                      !.trades = Append(@, entry)])

\* virtual_balance_manager.py:240-291: the source is debited by the amount
\* and the network fee (257) before self.balances[to_exchange] is read
\* (260), which raises KeyError for a venue the manager has no table of
simulate_transfer(m, asset, amount, from_exchange, to_exchange, network_fee) ==
    IF m.balances[from_exchange][asset].available < amount + network_fee
    THEN Refused(m)
    ELSE LET debited == [m EXCEPT !.balances[from_exchange][asset].available
                                      = @ - (amount + network_fee)]
         IN  IF to_exchange \notin DOMAIN m.balances
             THEN Raised(debited)
             ELSE Saved([debited EXCEPT
                      !.balances[to_exchange][asset].available = @ + amount,
                      !.transfer_counter = @ + 1,
                      !.transfers = Append(@,
                          [transfer_id |-> "SIM_TRANSFER_"
                                              \o ToString(m.transfer_counter + 1),
                           asset |-> asset, amount |-> amount,
                           from_exchange |-> from_exchange,
                           to_exchange |-> to_exchange, fee |-> network_fee,
                           status |-> "completed"])])

\* virtual_balance_manager.py:391-405
reset_state(initial) == Saved(NewManager(initial))

\* the manager and the file after an operation with outcome r
Outcome(r) ==
    /\ vbm' = r.m
    /\ state_file' = IF r.saved THEN save_state(r.m) ELSE state_file

\* how the operation with outcome r ended for its caller: True or the log
\* entry, False or None, or an exception
Ending(r) == IF r.raised THEN "raised" ELSE IF r.saved THEN "ok" ELSE "refused"

(***************************************************************************)
(* Initial state: RiskManager.__init__ (risk_manager.py:35-49)             *)
(***************************************************************************)
InitEnv(metrics, paper, answers, usdt, fill, prior) ==
    /\ active_trades = << >>
    /\ daily_metrics = metrics
    /\ last_reset_date = 0
    /\ today = 0
    /\ lastOpp = NoOpp
    /\ lastResult = None
    /\ stopReported = FALSE
    /\ callerPc = [c \in Callers |-> "idle"]
    /\ callerOpp = [c \in Callers |-> NoOpp]
    /\ dry_run = paper
    /\ running = FALSE
    /\ shutdown_in_progress = FALSE
    /\ botPhase = "created"
    /\ oppPc = "not_started"
    /\ metricsPc = "not_started"
    /\ coinIdx = 1
    /\ tradeSeq = 0
    /\ trade_record = NoTrade
    /\ statusHist = << >>
    /\ polls = 0
    /\ initial_balance = 0
    /\ dest_balance = 0
    /\ timedOutStep = 0
    /\ completeEffects = 0
    /\ lastComplete = NoComplete
    /\ now = 0
    /\ cache = NoRate
    /\ last_update = 0
    /\ fetched_at = 0
    /\ rateObs = NoObs
    /\ premObs = NoObs
    /\ slippage_call = NoObs
    /\ orderbook_failure_counts = << >>
    /\ failed_orderbook_coins = {}
    /\ premPc = "not_started"
    /\ premIdx = 1
    /\ data_failures = [coin \in Coins |-> 0]
    /\ monitor_list = << >>
    /\ iter_list = << >>
    /\ listPc = "not_started"
    /\ lastMarkets = NoObs
    /\ venue_markets = FullMarkets
    /\ provider_answers = answers
    /\ binance_usdt_free = usdt
    /\ market_fill = fill
    /\ prior_deposit = prior
    /\ withdraw_call = NoObs
    /\ mainPc = "await_bot"
    /\ signals = 0
    /\ stop_effects = [cancels |-> 0, reports |-> 0]
    /\ lock_locked = FALSE
    /\ lockPc = [c \in LockCallers |-> "idle"]
    /\ lockOp = [c \in LockCallers |-> NoObs]
    /\ entry_rm = NoObs
    /\ vbm = NewManager(initial_balances)
    /\ state_file = NoFile
    /\ sim_result = None

\* the first provider answers, EX-U holds twice the USDT of the largest
\* trade, orders fill at the quoted price and the account has received the
\* traded coins before
InitWith(metrics, paper) == InitEnv(metrics, paper, <<1, 1, 1>>, 2000, 0, TRUE)

InitState(paper) == InitWith(ZeroMetrics(0), paper)

\* live trading (config.py:49, dry_run defaults to False)
Init == InitState(FALSE)

(***************************************************************************)
(* SpecRisk: one RiskManager driven by an arbitrary sequence of calls of   *)
(* its public operations, with the local date advancing in between.  The   *)
(* caller takes the value a call returned before it makes its next call;   *)
(* for the two hooks, which return nothing, lastResult holds the call.     *)
(***************************************************************************)
DayPasses ==
    /\ today < MaxDays
    /\ today' = today + 1
    /\ UNCHANGED <<riskVars, obsVars, concVars, monVars, listVars, botVars, tradeVars, rateVars, stratVars, mainVars, lockVars, simVars>>

CallCanExecuteTrade ==
    \E opp \in OppInputs :
        LET out == can_execute_trade(RM, opp, today)
        IN  /\ lastResult = None
            /\ SetRM(out.rm)
            /\ lastOpp' = opp
            /\ lastResult' = out.result
            /\ UNCHANGED <<today, stopReported, concVars, monVars, listVars, botVars, tradeVars, rateVars, stratVars, mainVars, lockVars, simVars>>

CallRegisterTradeStart ==
    \E id \in TradeIds, opp \in StartInputs :
        /\ lastResult = None
        /\ daily_metrics.total_trades < MaxTrades
        /\ SetRM(register_trade_start(RM, id, opp))
        /\ lastOpp' = NoOpp
        /\ lastResult' = <<"register_trade_start", id, opp>>
        /\ UNCHANGED <<today, stopReported, concVars, monVars, listVars, botVars, tradeVars, rateVars, stratVars, mainVars, lockVars, simVars>>

CallRegisterTradeComplete ==
    \E id \in TradeIds, profit \in ProfitInputs, success \in BOOLEAN :
        /\ lastResult = None
        /\ SetRM(register_trade_complete(RM, id, profit, success))
        /\ lastOpp' = NoOpp
        /\ lastResult' = <<"register_trade_complete", id, profit, success>>
        /\ UNCHANGED <<today, stopReported, concVars, monVars, listVars, botVars, tradeVars, rateVars, stratVars, mainVars, lockVars, simVars>>

CallCheckEmergencyStop ==
    LET res == check_emergency_stop(RM)
    IN  /\ lastResult = None
        /\ lastOpp' = NoOpp
        /\ lastResult' = res
        /\ stopReported' = (stopReported \/ res[1])
        /\ UNCHANGED <<riskVars, today, concVars, monVars, listVars, botVars, tradeVars, rateVars, stratVars, mainVars, lockVars, simVars>>

CallGetTradingMetrics ==
    /\ lastResult = None
    /\ SetRM(get_trading_metrics(RM, today))
    /\ lastOpp' = NoOpp
    /\ lastResult' = None
    /\ UNCHANGED <<today, stopReported, concVars, monVars, listVars, botVars, tradeVars, rateVars, stratVars, mainVars, lockVars, simVars>>

\* the caller has taken the pair a call returned (main.py:331, 357)
TakeResult ==
    /\ lastResult # None
    /\ lastOpp' = NoOpp
    /\ lastResult' = None
    /\ UNCHANGED <<riskVars, today, stopReported, concVars, monVars, listVars, botVars, tradeVars, rateVars, stratVars, mainVars, lockVars, simVars>>

NextRisk ==
    \/ DayPasses
    \/ CallCanExecuteTrade
    \/ CallRegisterTradeStart
    \/ CallRegisterTradeComplete
    \/ CallCheckEmergencyStop
    \/ CallGetTradingMetrics
    \/ TakeResult

SpecRisk == Init /\ [][NextRisk]_vars

(***************************************************************************)
(* SpecStop: check_emergency_stop reads the daily counters only, so it is  *)
(* applied to counters drawn from the values a day of trading can leave:   *)
(* volumes 0, 1 and 10 with losses on both sides of 30%, and trade counts  *)
(* on both sides of 10 with failures on both sides of one half.  A loss    *)
(* comes with the volume of its trade; failures can outnumber the trades   *)
(* of the day by the trades carried over the daily reset.                  *)
(***************************************************************************)
StopMetricsInputs ==
    { [ZeroMetrics(0) EXCEPT !.daily_volume_krw = v, !.daily_loss_krw = l,
                             !.total_trades = n, !.failed_trades = f] :
        v \in {0, 1, 10}, l \in {0, 1, 3, 4}, n \in {0, 10, 11, 12}, f \in {0, 5, 6, 7} }

InitStop ==
    \E m \in StopMetricsInputs :
        /\ (m.daily_volume_krw = 0 => m.daily_loss_krw = 0)
        /\ m.failed_trades <= m.total_trades + max_concurrent_trades
        /\ InitWith(m, FALSE)

NextStop ==
    \/ CallCheckEmergencyStop
    \/ TakeResult

SpecStop == InitStop /\ [][NextStop]_vars

(***************************************************************************)
(* SpecConc: several callers use one RiskManager concurrently.  Each asks  *)
(* admission (can_execute_trade), on approval registers its trade          *)
(* (register_trade_start, main.py:383-384) and later completes it          *)
(* (main.py:395).  Every call is one critical section of the lock; the     *)
(* calls of different callers interleave in any order.                     *)
(***************************************************************************)
CallerTradeId(c) == c

CallerAsksAdmission(c) ==
    /\ callerPc[c] = "idle"
    /\ \E opp \in StartInputs :
         LET out == can_execute_trade(RM, opp, today)
         IN  /\ SetRM(out.rm)
             /\ callerPc' = [callerPc EXCEPT ![c] =
                                IF out.result[1] THEN "approved" ELSE "done"]
             /\ callerOpp' = [callerOpp EXCEPT ![c] = opp]
    /\ UNCHANGED <<today, obsVars, botVars, tradeVars, rateVars, monVars, listVars, stratVars, mainVars, lockVars, simVars>>

CallerRegistersStart(c) ==
    /\ callerPc[c] = "approved"
    /\ SetRM(register_trade_start(RM, CallerTradeId(c), callerOpp[c]))
    /\ callerPc' = [callerPc EXCEPT ![c] = "registered"]
    /\ UNCHANGED <<today, obsVars, callerOpp, botVars, tradeVars, rateVars, monVars, listVars, stratVars, mainVars, lockVars, simVars>>

CallerRegistersComplete(c) ==
    /\ callerPc[c] = "registered"
    /\ \E profit \in ProfitInputs, success \in BOOLEAN :
         SetRM(register_trade_complete(RM, CallerTradeId(c), profit, success))
    /\ callerPc' = [callerPc EXCEPT ![c] = "done"]
    /\ UNCHANGED <<today, obsVars, callerOpp, botVars, tradeVars, rateVars, monVars, listVars, stratVars, mainVars, lockVars, simVars>>

NextConc ==
    \/ \E c \in Callers : CallerAsksAdmission(c)
    \/ \E c \in Callers : CallerRegistersStart(c)
    \/ \E c \in Callers : CallerRegistersComplete(c)

SpecConc == Init /\ [][NextConc]_vars

(***************************************************************************)
(* SpecVolume: two of the callers of SpecConc, each making one trade after *)
(* the other on the same day: a caller whose request was rejected or whose *)
(* trade has completed asks for admission again.                           *)
(***************************************************************************)
VolumeCallers == {1, 2}

\* the caller is done with one opportunity and turns to the next
CallerNextTrade(c) ==
    /\ callerPc[c] = "done"
    /\ callerPc' = [callerPc EXCEPT ![c] = "idle"]
    /\ callerOpp' = [callerOpp EXCEPT ![c] = NoOpp]
    /\ UNCHANGED <<riskVars, today, obsVars, botVars, tradeVars, rateVars, monVars, listVars, stratVars, mainVars, lockVars, simVars>>

NextVolume ==
    \/ \E c \in VolumeCallers : CallerAsksAdmission(c)
    \/ \E c \in VolumeCallers : CallerRegistersStart(c)
    \/ \E c \in VolumeCallers : CallerRegistersComplete(c)
    \/ \E c \in VolumeCallers : CallerNextTrade(c)

SpecVolume == Init /\ [][NextVolume]_vars

(***************************************************************************)
(* The strategies (forward_arbitrage.py, reverse_arbitrage.py).            *)
(* A step of execute_arbitrage is described by the status it sets (None    *)
(* when it sets none), the name it appends to trade_record['steps'] and    *)
(* its shape:                                                              *)
(*   "check"       venue reads only, then the append                       *)
(*   "order"       an order, then the append                               *)
(*   "order_sleep" an order, asyncio.sleep(2), then the append             *)
(*   "transfer"    a withdrawal, the append, then the deposit wait         *)
(***************************************************************************)
StepOf(status, name, kind, wait) ==
    [status |-> status, name |-> name, kind |-> kind, wait |-> wait]

\* Mutant of ForwardSteps: the sell on Binance is announced before the
\* transfer to Binance.
ForwardSteps_selling_before_transfer ==
    << StepOf("buying_upbit", "buy_upbit", "order_sleep", None),
       StepOf("selling_binance", "transfer_to_binance", "transfer",
              "forward_binance"),
       StepOf("transferring_to_binance", "sell_binance", "order", None),
       StepOf("transferring_to_upbit", "transfer_usdt_to_upbit", "transfer",
              "forward_upbit"),
       StepOf("selling_usdt_upbit", "sell_usdt_upbit", "order", None) >>

\* forward_arbitrage.py:56-70 with the step methods at 90-264
ForwardSteps ==
    << StepOf("buying_upbit", "buy_upbit", "order_sleep", None),
       StepOf("transferring_to_binance", "transfer_to_binance", "transfer",
              "forward_binance"),
       StepOf("selling_binance", "sell_binance", "order", None),
       StepOf("transferring_to_upbit", "transfer_usdt_to_upbit", "transfer",
              "forward_upbit"),
       StepOf("selling_usdt_upbit", "sell_usdt_upbit", "order", None) >>

\* reverse_arbitrage.py:53-70 with the step methods at 90-300
ReverseSteps ==
    << StepOf(None, "check_usdt_balance", "check", None),
       StepOf("buying_coin_binance", "buy_binance", "order", None),
       StepOf("transferring_to_upbit", "transfer_to_upbit", "transfer",
              "reverse_upbit"),
       StepOf("selling_upbit", "sell_upbit", "order_sleep", None),
       StepOf("buying_usdt_upbit", "buy_usdt_upbit", "order_sleep", None),
       StepOf("transferring_to_binance", "transfer_usdt_to_binance", "transfer",
              "reverse_binance") >>

StepsOf(direction) ==
    IF direction = "forward" THEN ForwardSteps ELSE ReverseSteps

CurrentStep == StepsOf(trade_record.opportunity.direction)[trade_record.stepIdx]

\* the waits that return after a fixed sleep in paper trading
\* (forward_arbitrage.py:268-275, 301-308); the reverse strategy's waits
\* (reverse_arbitrage.py:302-352) poll in both modes
WaitSleepsInPaperMode(wait) == wait \in {"forward_binance", "forward_upbit"}

\* the confirmation test of one poll of a wait, given the balance it read
\* and whether the deposit history it read holds a matching accepted entry
\* (forward_arbitrage.py:285-289, 318-322; reverse_arbitrage.py:310-321,
\* 338-344)
DepositConfirmed(wait, current_balance, historyMatch) ==
    LET enough == (current_balance - initial_balance) * 100 >= TransferAmount * 99
    IN  IF wait = "reverse_upbit"
        THEN historyMatch \/ enough
        ELSE current_balance > initial_balance /\ enough

\* get_deposit_history(currency, limit=10) holds an entry with state
\* 'accepted' and an amount of at least 99% of the transfer
\* (reverse_arbitrage.py:310-315): an earlier deposit of that size, or the
\* deposit of this transfer once the venue has credited it
HistoryHasAcceptedDeposit == prior_deposit \/ dest_balance > 0

\* the places where the opportunity task is suspended in an await
Suspended == {"sleeping", "order_sleep", "paper_sleep", "poll_sleep"}

\* what check_arbitrage_opportunity can hand to the loop for a coin
\* (premium_calculator.py:161-197): nothing, or an opportunity whose
\* expected profit is above fees plus margin and whose amount is clamped
\* to max_trade_amount_krw
BotOpps(coin) ==
    { Opportunity(coin, dir, max_single_trade_krw, Rat(3, 1), Rat(1, 1), Rat(1, 1)) :
        dir \in {"forward", "reverse"} }

\* profit_krw of a finished trade as _calculate_profit reports it
\* (forward_arbitrage.py:360-389)
BotProfits == {-1, 0, 1}

(***************************************************************************)
(* SpecBot: the orchestrator (main.py) with its opportunity task, its      *)
(* metrics task and shutdown.  The tasks run on one asyncio event loop: a  *)
(* task runs until its next await of a sleep, so the metrics task and      *)
(* stop() act only while the opportunity task is suspended.  Venue calls   *)
(* are blocking calls and succeed or raise.                                *)
(***************************************************************************)
InitBot == \E paper \in BOOLEAN : InitState(paper)

\* upbit_client.py:430-446: the KRW coins whose USDT symbol EX-U lists, in
\* the order of the KRW listing
get_tradable_markets_with_binance(krw, binance_symbols) ==
    IF ~krw.ok
    THEN [ok |-> FALSE]
    ELSE [ok      |-> TRUE,
          markets |-> SelectSeq(krw.markets,
                                LAMBDA coin : (coin \o "USDT") \in binance_symbols)]

\* the list the try blocks of _initialize_coin_list (main.py:221-232) and of
\* _update_coin_list_periodically (main.py:249-266) compute from the venues'
\* listings m, or the exception that ends them
NewCoinList(m) ==
    IF ~m.usdt.ok
    THEN [ok |-> FALSE]
    ELSE LET tradable == get_tradable_markets_with_binance(m.krw, m.usdt.markets)
         IN  IF ~tradable.ok \/ Len(monitor_coins) = 0
             THEN tradable
             ELSE [ok      |-> TRUE,
                   markets |-> SelectSeq(tradable.markets, LAMBDA coin : coin \in Coins)]

\* start() (main.py:136-168): the coin list is initialised (main.py:219-243),
\* with the refresh task created when that succeeds and the configured list
\* taken when it fails; the created tasks first run when scheduled, which
\* for a loop task is the same as waking at the loop top
StartBot ==
    /\ botPhase = "created"
    /\ botPhase' = "started"
    /\ running' = TRUE
    /\ LET new == NewCoinList(venue_markets)
       IN  /\ monitor_list' = IF new.ok THEN new.markets ELSE monitor_coins
           /\ listPc' = IF new.ok THEN "sleeping" ELSE "not_started"
    /\ lastMarkets' = venue_markets
    /\ oppPc' = "sleeping"
    /\ metricsPc' = "sleeping"
    /\ premPc' = "sleeping"
    /\ UNCHANGED <<riskVars, today, obsVars, concVars, rateVars, dry_run,
                   shutdown_in_progress, coinIdx, tradeSeq, tradeVars,
                   slippage_call, orderbook_failure_counts, failed_orderbook_coins,
                   premIdx, data_failures, iter_list, venue_markets, stratVars, mainVars, lockVars, simVars>>

\* _check_arbitrage_opportunities, loop top (main.py:328-343): the for
\* statement takes the list self.monitor_coins is bound to at that moment
OppWake ==
    /\ oppPc = "sleeping"
    /\ IF ~running
       THEN oppPc' = "exited" /\ UNCHANGED <<coinIdx, iter_list, stratVars, mainVars, lockVars, simVars>>
       ELSE IF check_emergency_stop(RM)[1]
            THEN oppPc' = "sleeping" /\ UNCHANGED <<coinIdx, iter_list, stratVars, mainVars, lockVars, simVars>>
            ELSE oppPc' = "scan" /\ coinIdx' = 1 /\ iter_list' = monitor_list
    /\ stopReported' = (stopReported \/ (running /\ check_emergency_stop(RM)[1]))
    /\ UNCHANGED <<riskVars, today, lastOpp, lastResult, concVars, monVars, rateVars,
                   dry_run, running, shutdown_in_progress, botPhase, metricsPc,
                   tradeSeq, tradeVars, monitor_list, listPc, lastMarkets,
                   venue_markets, stratVars, mainVars, lockVars, simVars>>

\* end of the for loop over the coins (main.py:373)
OppScanEnd ==
    /\ oppPc = "scan"
    /\ coinIdx > Len(iter_list)
    /\ oppPc' = "sleeping"
    /\ iter_list' = << >>
    /\ UNCHANGED <<riskVars, today, obsVars, concVars, monVars, rateVars, dry_run, running,
                   shutdown_in_progress, botPhase, metricsPc, coinIdx, tradeSeq,
                   tradeVars, monitor_list, listPc, lastMarkets, venue_markets, stratVars, mainVars, lockVars, simVars>>

\* the trade_record execute_arbitrage creates (forward_arbitrage.py:46-52)
NewTrade(id, opp) ==
    [id |-> id, opportunity |-> opp, status |-> "pending", steps |-> << >>,
     stepIdx |-> 1]

\* one coin of the for loop (main.py:343-371) up to the strategy's first
\* step: a skipped coin or no opportunity, a rejected opportunity, or an
\* approved one that is registered (main.py:383-384) and handed to its
\* strategy
OppScanCoin ==
    /\ oppPc = "scan"
    /\ coinIdx <= Len(iter_list)
    /\ \/ /\ coinIdx' = coinIdx + 1
          /\ UNCHANGED <<riskVars, oppPc, tradeSeq, tradeVars, stratVars, mainVars, lockVars, simVars>>
       \/ /\ iter_list[coinIdx] \notin failed_orderbook_coins
          /\ tradeSeq < MaxTrades
          /\ \E opp \in BotOpps(iter_list[coinIdx]) :
               LET out == can_execute_trade(RM, opp, today)
               IN  IF out.result[1]
                   THEN /\ SetRM(register_trade_start(out.rm, tradeSeq + 1, opp))
                        /\ tradeSeq' = tradeSeq + 1
                        /\ trade_record' = NewTrade(tradeSeq + 1, opp)
                        /\ statusHist' = <<"pending">>
                        /\ polls' = 0
                        /\ timedOutStep' = 0
                        /\ completeEffects' = 0
                        /\ oppPc' = "step"
                        /\ UNCHANGED <<coinIdx, initial_balance, dest_balance,
                                       lastComplete, stratVars, mainVars, lockVars, simVars>>
                   ELSE /\ SetRM(out.rm)
                        /\ coinIdx' = coinIdx + 1
                        /\ UNCHANGED <<oppPc, tradeSeq, tradeVars, stratVars, mainVars, lockVars, simVars>>
    /\ UNCHANGED <<today, obsVars, concVars, monVars, listVars, rateVars, dry_run, running,
                   shutdown_in_progress, botPhase, metricsPc, stratVars, mainVars, lockVars, simVars>>

\* ---- how a step of the strategy ends --------------------------------------

\* the status a step assigns when it starts; _ensure_usdt_balance assigns none
StatusSetBy(step) ==
    IF step.status = None THEN trade_record.status ELSE step.status

\* the history of status values once 'status' has been assigned
HistWith(status) ==
    IF status = trade_record.status THEN statusHist ELSE Append(statusHist, status)

\* Mutant of StepReturns: the strategy runs the step that returned again.
StepReturns_repeating_step(status, steps) ==
    /\ trade_record' = [trade_record EXCEPT !.steps = steps, !.status = status]
    /\ statusHist' = HistWith(status)
    /\ oppPc' = "step"

\* the step returned: on to the next step, or COMPLETED after the last one
\* (forward_arbitrage.py:72, reverse_arbitrage.py:72)
StepReturns(status, steps) ==
    IF trade_record.stepIdx = Len(StepsOf(trade_record.opportunity.direction))
    THEN /\ trade_record' = [trade_record EXCEPT !.steps = steps,
                                                 !.status = "completed"]
         /\ statusHist' = Append(HistWith(status), "completed")
         /\ oppPc' = "report"
    ELSE /\ trade_record' = [trade_record EXCEPT !.steps = steps,
                                                 !.status = status,
                                                 !.stepIdx = @ + 1]
         /\ statusHist' = HistWith(status)
         /\ oppPc' = "step"

\* Mutant of StepRaises: the handler returns the record without marking it
\* FAILED.
StepRaises_keeping_status(status) ==
    /\ trade_record' = [trade_record EXCEPT !.status = status]
    /\ statusHist' = HistWith(status)
    /\ oppPc' = "report"

\* the step raised: execute_arbitrage's handler marks the trade FAILED and
\* returns the record (forward_arbitrage.py:79-88, reverse_arbitrage.py:79-88)
StepRaises(status) ==
    /\ trade_record' = [trade_record EXCEPT !.status = "failed"]
    /\ statusHist' = Append(HistWith(status), "failed")
    /\ oppPc' = "report"

\* ---- the steps --------------------------------------------------------------

\* ExchangeRateProvider.__init__ (exchange_rate.py:10-13): nothing cached
NewProvider == [cache |-> NoRate, last_update |-> 0, fetched_at |-> 0]

\* Mutant of required_usdt: the converted amount without the 1% buffer.
required_usdt_without_buffer(rate, krw_amount) ==
    RNorm(Rat(krw_amount, rate))

\* convert_krw_to_usd(trade_amount_krw) * 1.01 (reverse_arbitrage.py:98-101,
\* exchange_rate.py:137-141)
required_usdt(rate, krw_amount) ==
    RNorm(Rat(krw_amount * 101, rate * 100))

\* the tests of _ensure_usdt_balance (reverse_arbitrage.py:94-107): the rate
\* a provider constructed for this call obtains is not None and the free
\* balance is not below the required amount
ensure_usdt_balance(answers, free, opportunity) ==
    LET rate == get_usd_krw_rate(NewProvider, now, answers).rate
    IN  /\ rate # NoRate
        /\ ~RGt(required_usdt(rate, opportunity.trade_amount_krw), Rat(free, 1000))

\* _ensure_usdt_balance (reverse_arbitrage.py:90-118): sets no status; it
\* raises when a test fails or a venue request raises
StepCheck ==
    /\ oppPc = "step"
    /\ CurrentStep.kind = "check"
    /\ IF ensure_usdt_balance(provider_answers, binance_usdt_free,
                              trade_record.opportunity)
       THEN \/ StepReturns(StatusSetBy(CurrentStep),
                           Append(trade_record.steps, CurrentStep.name))
            \/ StepRaises(StatusSetBy(CurrentStep))
       ELSE StepRaises(StatusSetBy(CurrentStep))
    /\ UNCHANGED <<riskVars, today, obsVars, concVars, monVars, listVars, rateVars, dry_run, running,
                   shutdown_in_progress, botPhase, metricsPc, coinIdx, tradeSeq,
                   polls, initial_balance, dest_balance, timedOutStep,
                   completeEffects, lastComplete, stratVars, mainVars, lockVars, simVars>>

\* _sell_on_binance, _sell_usdt_on_upbit (forward_arbitrage.py:171-264),
\* _buy_on_binance (reverse_arbitrage.py:120-153)
StepOrder ==
    /\ oppPc = "step"
    /\ CurrentStep.kind = "order"
    /\ \/ StepReturns(CurrentStep.status,
                      Append(trade_record.steps, CurrentStep.name))
       \/ StepRaises(CurrentStep.status)
    /\ UNCHANGED <<riskVars, today, obsVars, concVars, monVars, listVars, rateVars, dry_run, running,
                   shutdown_in_progress, botPhase, metricsPc, coinIdx, tradeSeq,
                   polls, initial_balance, dest_balance, timedOutStep,
                   completeEffects, lastComplete, stratVars, mainVars, lockVars, simVars>>

\* _buy_on_upbit (forward_arbitrage.py:90-124), _sell_on_upbit,
\* _buy_usdt_on_upbit (reverse_arbitrage.py:202-263) up to their sleep
StepOrderSleep ==
    /\ oppPc = "step"
    /\ CurrentStep.kind = "order_sleep"
    /\ \/ /\ trade_record' = [trade_record EXCEPT !.status = CurrentStep.status]
          /\ statusHist' = Append(statusHist, CurrentStep.status)
          /\ oppPc' = "order_sleep"
       \/ StepRaises(CurrentStep.status)
    /\ UNCHANGED <<riskVars, today, obsVars, concVars, monVars, listVars, rateVars, dry_run, running,
                   shutdown_in_progress, botPhase, metricsPc, coinIdx, tradeSeq,
                   polls, initial_balance, dest_balance, timedOutStep,
                   completeEffects, lastComplete, stratVars, mainVars, lockVars, simVars>>

\* the same steps after their sleep: the order is read back and the step
\* appended (forward_arbitrage.py:109-120, reverse_arbitrage.py:219-229,
\* 250-259)
OrderWake ==
    /\ oppPc = "order_sleep"
    /\ \/ StepReturns(trade_record.status,
                      Append(trade_record.steps, CurrentStep.name))
       \/ StepRaises(trade_record.status)
    /\ UNCHANGED <<riskVars, today, obsVars, concVars, monVars, listVars, rateVars, dry_run, running,
                   shutdown_in_progress, botPhase, metricsPc, coinIdx, tradeSeq,
                   polls, initial_balance, dest_balance, timedOutStep,
                   completeEffects, lastComplete, stratVars, mainVars, lockVars, simVars>>

\* _transfer_to_binance, _transfer_usdt_to_upbit (forward_arbitrage.py:
\* 126-237), _transfer_to_upbit, _transfer_usdt_to_binance
\* (reverse_arbitrage.py:155-300) up to the call of the wait
StepTransfer ==
    /\ oppPc = "step"
    /\ CurrentStep.kind = "transfer"
    /\ \/ /\ trade_record' = [trade_record EXCEPT
                                 !.status = CurrentStep.status,
                                 !.steps = Append(@, CurrentStep.name)]
          /\ statusHist' = Append(statusHist, CurrentStep.status)
          /\ dest_balance' = 0
          /\ oppPc' = IF dry_run /\ WaitSleepsInPaperMode(CurrentStep.wait)
                      THEN "paper_sleep" ELSE "wait_start"
       \/ /\ StepRaises(CurrentStep.status)
          /\ UNCHANGED dest_balance
    /\ UNCHANGED <<riskVars, today, obsVars, concVars, monVars, listVars, rateVars, dry_run, running,
                   shutdown_in_progress, botPhase, metricsPc, coinIdx, tradeSeq,
                   polls, initial_balance, timedOutStep,
                   completeEffects, lastComplete, stratVars, mainVars, lockVars, simVars>>

\* ---- the deposit waits ------------------------------------------------------

\* paper trading: the wait returns after its sleep
\* (forward_arbitrage.py:268-275, 301-308)
PaperWake ==
    /\ oppPc = "paper_sleep"
    /\ StepReturns(trade_record.status, trade_record.steps)
    /\ UNCHANGED <<riskVars, today, obsVars, concVars, monVars, listVars, rateVars, dry_run, running,
                   shutdown_in_progress, botPhase, metricsPc, coinIdx, tradeSeq,
                   polls, initial_balance, dest_balance, timedOutStep,
                   completeEffects, lastComplete, stratVars, mainVars, lockVars, simVars>>

\* live polling: start_time and initial_balance are taken before the loop;
\* the balance read is outside the loop's try, so a venue error ends the
\* step (forward_arbitrage.py:278-279, reverse_arbitrage.py:304-305)
WaitStart ==
    /\ oppPc = "wait_start"
    /\ \/ /\ initial_balance' = dest_balance
          /\ polls' = 0
          /\ oppPc' = "polling"
          /\ UNCHANGED <<trade_record, statusHist>>
       \/ /\ StepRaises(trade_record.status)
          /\ UNCHANGED <<initial_balance, polls>>
    /\ UNCHANGED <<riskVars, today, obsVars, concVars, monVars, listVars, rateVars, dry_run, running,
                   shutdown_in_progress, botPhase, metricsPc, coinIdx, tradeSeq,
                   dest_balance, timedOutStep, completeEffects, lastComplete, stratVars, mainVars, lockVars, simVars>>

\* Mutant of WithinTransferTimeout: the loop condition never ends the wait.
WithinTransferTimeout_without_ceiling(sleeps) == TRUE

\* the loop condition datetime.now() - start_time < self.transfer_timeout
\* after the given number of 30 s sleeps (forward_arbitrage.py:281, 314;
\* reverse_arbitrage.py:307, 334)
WithinTransferTimeout(sleeps) == sleeps < TimeoutPolls

\* one evaluation of the loop condition and, inside the ceiling, one poll
\* (forward_arbitrage.py:281-297, reverse_arbitrage.py:307-329): each sleep
\* is 30 s, so the ceiling has elapsed after TimeoutPolls sleeps.  A poll
\* that raises is logged and sleeps like one that saw no deposit.
Poll ==
    /\ oppPc \in {"polling", "poll_sleep"}
    /\ IF ~WithinTransferTimeout(polls)
       THEN /\ StepRaises(trade_record.status)
            /\ timedOutStep' = trade_record.stepIdx
            /\ UNCHANGED polls
       ELSE \/ /\ DepositConfirmed(CurrentStep.wait, dest_balance,
                                  HistoryHasAcceptedDeposit)
               /\ StepReturns(trade_record.status, trade_record.steps)
               /\ UNCHANGED <<polls, timedOutStep>>
            \/ /\ polls' = polls + 1
               /\ oppPc' = "poll_sleep"
               /\ UNCHANGED <<trade_record, statusHist, timedOutStep>>
    /\ UNCHANGED <<riskVars, today, obsVars, concVars, monVars, listVars, rateVars, dry_run, running,
                   shutdown_in_progress, botPhase, metricsPc, coinIdx, tradeSeq,
                   initial_balance, dest_balance, completeEffects, lastComplete, stratVars, mainVars, lockVars, simVars>>

\* the venue credits the transferred asset at the destination
CreditDeposit ==
    /\ oppPc \in {"wait_start", "polling", "poll_sleep"}
    /\ dest_balance = 0
    /\ dest_balance' = TransferAmount
    /\ UNCHANGED <<riskVars, today, obsVars, concVars, monVars, listVars, rateVars, botVars, trade_record,
                   statusHist, polls, initial_balance, timedOutStep,
                   completeEffects, lastComplete, stratVars, mainVars, lockVars, simVars>>

\* ---- back in _execute_arbitrage (main.py:392-404) ---------------------------
Report ==
    /\ oppPc = "report"
    /\ LET success == trade_record.status = "completed"
       IN  \E profit \in (IF success THEN BotProfits ELSE {0}) :
             /\ SetRM(register_trade_complete(RM, trade_record.id, profit, success))
             /\ completeEffects' = completeEffects +
                   (IF trade_record.id \in DOMAIN active_trades THEN 1 ELSE 0)
             /\ lastComplete' = [trade_id |-> trade_record.id,
                                 profit_krw |-> profit, success |-> success]
    /\ coinIdx' = coinIdx + 1
    /\ oppPc' = "scan"
    /\ UNCHANGED <<today, obsVars, concVars, monVars, listVars, rateVars, dry_run, running,
                   shutdown_in_progress, botPhase, metricsPc, tradeSeq,
                   trade_record, statusHist, polls, initial_balance,
                   dest_balance, timedOutStep, stratVars, mainVars, lockVars, simVars>>

\* _execute_arbitrage when a statement after the completion call raises (the
\* dashboard update, main.py:397-404): the handler of the try block calls
\* register_trade_complete(trade_id, 0, False) for the trade that has just
\* been completed (main.py:406-410)
ReportErrorPath ==
    /\ oppPc = "report"
    /\ LET success == trade_record.status = "completed"
       IN  \E profit \in (IF success THEN BotProfits ELSE {0}) :
             LET first  == register_trade_complete(RM, trade_record.id, profit, success)
                 second == register_trade_complete(first, trade_record.id, 0, FALSE)
             IN  /\ SetRM(second)
                 /\ completeEffects' = completeEffects +
                       (IF trade_record.id \in DOMAIN active_trades THEN 1 ELSE 0) +
                       (IF second # first THEN 1 ELSE 0)
                 /\ lastComplete' = [trade_id |-> trade_record.id,
                                     profit_krw |-> 0, success |-> FALSE]
    /\ coinIdx' = coinIdx + 1
    /\ oppPc' = "scan"
    /\ UNCHANGED <<today, obsVars, concVars, monVars, listVars, rateVars, dry_run, running,
                   shutdown_in_progress, botPhase, metricsPc, tradeSeq,
                   trade_record, statusHist, polls, initial_balance,
                   dest_balance, timedOutStep, stratVars, mainVars, lockVars, simVars>>

\* ---- the other tasks --------------------------------------------------------

\* _update_metrics (main.py:412-432), one iteration
MetricsTick ==
    /\ metricsPc = "sleeping"
    /\ oppPc \in Suspended
    /\ IF running
       THEN SetRM(get_trading_metrics(RM, today)) /\ UNCHANGED metricsPc
       ELSE metricsPc' = "exited" /\ UNCHANGED riskVars
    /\ UNCHANGED <<today, obsVars, concVars, monVars, listVars, rateVars, dry_run, running,
                   shutdown_in_progress, botPhase, oppPc, coinIdx, tradeSeq,
                   tradeVars, stratVars, mainVars, lockVars, simVars>>

\* the tasks start() creates (main.py:158-163)
NumTasks == 4

\* the orchestrator's fields and tasks that stop() reads or writes
Bot ==
    [shutdown_in_progress |-> shutdown_in_progress, running |-> running,
     dry_run |-> dry_run, oppPc |-> oppPc, metricsPc |-> metricsPc,
     cancels |-> stop_effects.cancels, reports |-> stop_effects.reports]

SetBot(b) ==
    /\ shutdown_in_progress' = b.shutdown_in_progress
    /\ running' = b.running
    /\ oppPc' = b.oppPc
    /\ metricsPc' = b.metricsPc
    /\ stop_effects' = [cancels |-> b.cancels, reports |-> b.reports]

\* Mutant of stop: the call does not look at _shutdown_in_progress.
stop_without_guard(b) ==
    [b EXCEPT !.shutdown_in_progress = TRUE,
              !.running = FALSE,
              !.oppPc = "cancelled",
              !.metricsPc = "cancelled",
              !.cancels = @ + NumTasks,
              !.reports = IF b.dry_run THEN @ + 1 ELSE @]

\* stop() (main.py:170-217): a call that finds _shutdown_in_progress set
\* returns at once; otherwise every task is cancelled and awaited and, in
\* paper mode (balance_manager exists, main.py:77-93), the report block
\* runs: it writes the performance report unless producing it raises.  A cancelled task gets CancelledError at the await it is
\* suspended in; none of the 'except Exception' handlers on the way up
\* catches it, so the task ends there.
stop(b) ==
    IF b.shutdown_in_progress
    THEN b
    ELSE [b EXCEPT !.shutdown_in_progress = TRUE,
                   !.running = FALSE,
                   !.oppPc = "cancelled",
                   !.metricsPc = "cancelled",
                   !.cancels = @ + NumTasks,
                   !.reports = IF b.dry_run THEN @ + 1 ELSE @]

\* the first signal: the handler sets shutdown_event and monitor_shutdown
\* calls stop() (main.py:566-579); start() returns when its gather is
\* cancelled (main.py:165-168)
StopBot ==
    /\ botPhase = "started"
    /\ oppPc \in Suspended
    /\ signals = 0
    /\ signals' = 1
    /\ SetBot(stop(Bot))
    /\ botPhase' = "ended"
    /\ UNCHANGED <<riskVars, today, obsVars, concVars, monVars, listVars, rateVars, dry_run, coinIdx,
                   tradeSeq, tradeVars, stratVars, mainPc, lockVars, simVars>>

\* a further signal before the process has exited: the handler sets the
\* event again; monitor_shutdown is past its wait and calls nothing
SecondSignal ==
    /\ botPhase = "ended"
    /\ mainPc = "await_bot"
    /\ signals = 1
    /\ signals' = signals + 1
    /\ UNCHANGED <<riskVars, today, obsVars, concVars, monVars, listVars, rateVars, botVars,
                   tradeVars, stratVars, mainPc, stop_effects, lockVars, simVars>>

\* main()'s finally block (main.py:588-590) once bot_task has ended: it
\* sets the event and calls stop() again
MainFinally ==
    /\ botPhase = "ended"
    /\ mainPc = "await_bot"
    /\ SetBot(stop(Bot))
    /\ mainPc' = "exited"
    /\ UNCHANGED <<riskVars, today, obsVars, concVars, monVars, listVars, rateVars, dry_run, botPhase,
                   coinIdx, tradeSeq, tradeVars, stratVars, signals, lockVars, simVars>>

NextBot ==
    \/ StartBot
    \/ OppWake
    \/ OppScanEnd
    \/ OppScanCoin
    \/ StepCheck
    \/ StepOrder
    \/ StepOrderSleep
    \/ OrderWake
    \/ StepTransfer
    \/ PaperWake
    \/ WaitStart
    \/ Poll
    \/ CreditDeposit
    \/ Report
    \/ MetricsTick
    \/ StopBot
    \/ DayPasses

SpecBot == InitBot /\ [][NextBot]_vars

(***************************************************************************)
(* SpecShutdown: the orchestrator up to the exit of the process, with a    *)
(* further signal and the second stop() of main()                          *)
(***************************************************************************)
NextShutdown ==
    \/ NextBot
    \/ SecondSignal
    \/ MainFinally

SpecShutdown == InitBot /\ [][NextShutdown]_vars

(***************************************************************************)
(* SpecUniverse: the orchestrator of SpecBot together with the task that   *)
(* refreshes the coin list every 1800 s and with venues whose listings     *)
(* change.  The refresh has no await between its listing requests and its  *)
(* assignment, and runs while the opportunity task is suspended.           *)
(***************************************************************************)
\* one pass of _update_coin_list_periodically after its sleep
\* (main.py:247-269); the loop condition is read again after the pass
RefreshCoinList ==
    /\ listPc = "sleeping"
    /\ oppPc \in Suspended \cup {"exited"}
    /\ LET new == NewCoinList(venue_markets)
       IN  monitor_list' = IF new.ok THEN new.markets ELSE monitor_list
    /\ lastMarkets' = venue_markets
    /\ listPc' = IF running THEN "sleeping" ELSE "exited"
    /\ UNCHANGED <<riskVars, today, obsVars, concVars, monVars, rateVars, botVars,
                   tradeVars, iter_list, venue_markets, stratVars, mainVars, lockVars, simVars>>

\* a venue lists or delists a market, or its listing request starts or stops
\* failing
MarketsChange ==
    /\ \E m \in MarketInputs \ {venue_markets} : venue_markets' = m
    /\ UNCHANGED <<riskVars, today, obsVars, concVars, monVars, rateVars, botVars,
                   tradeVars, monitor_list, iter_list, listPc, lastMarkets, stratVars, mainVars, lockVars, simVars>>

NextUniverse ==
    \/ NextBot
    \/ RefreshCoinList
    \/ MarketsChange

SpecUniverse == InitBot /\ [][NextUniverse]_vars

(***************************************************************************)
(* ExchangeRateProvider (exchange_rate.py).  The clock counts ticks of     *)
(* 300 s; P is the provider's state with the time at which the cached      *)
(* value was fetched from a provider.                                      *)
(***************************************************************************)
P == [cache |-> cache, last_update |-> last_update, fetched_at |-> fetched_at]

SetP(p) ==
    /\ cache'       = p.cache
    /\ last_update' = p.last_update
    /\ fetched_at'  = p.fetched_at

(***************************************************************************)
(* SpecRate: one ExchangeRateProvider asked for the rate at arbitrary      *)
(* times, with providers that answer or fail at will                       *)
(***************************************************************************)
TimePasses ==
    /\ now < MaxTime
    /\ now' = now + 1
    /\ rateObs' = NoObs
    /\ premObs' = NoObs
    /\ UNCHANGED <<riskVars, today, obsVars, concVars, monVars, listVars, botVars, tradeVars,
                   cache, last_update, fetched_at, stratVars, mainVars, lockVars, simVars>>

CallGetUsdKrwRate ==
    /\ \E fetch \in FetchInputs :
         LET out == get_usd_krw_rate(P, now, fetch)
         IN  /\ SetP(out.p)
             /\ rateObs' = [op |-> "get_usd_krw_rate", rate |-> out.rate,
                            source |-> out.source, consulted |-> out.consulted,
                            fetch |-> fetch]
    /\ premObs' = NoObs
    /\ UNCHANGED <<riskVars, today, obsVars, concVars, monVars, listVars, botVars, tradeVars, now, stratVars, mainVars, lockVars, simVars>>

NextRate ==
    \/ TimePasses
    \/ CallGetUsdKrwRate

SpecRate == Init /\ [][NextRate]_vars

(***************************************************************************)
(* PremiumCalculator (premium_calculator.py).  A venue call returns a      *)
(* value or raises, so each calculator method is the set of outcomes it    *)
(* can have from a given provider state at a given time; an outcome holds  *)
(* the provider state it leaves and the rates its get_usd_krw_rate calls   *)
(* returned, in order.                                                     *)
(***************************************************************************)
\* a venue call that raised
Raises == -1

\* get_ticker_price of Upbit (upbit_client.py) for a KRW market
UpbitTickerResults(ticker) ==
    IF ticker = "KRW-USDT" THEN {Raises, 1, 2} ELSE {Raises, 90, 200, 220}

\* get_ticker_price of Binance (binance_client.py) for a USDT market
BinanceTickerResults == {Raises, 100}

\* the provider results a calculator's call can consume: none when the
\* cache is valid, otherwise the first provider's answer or no answer at
\* all.  Which provider answers changes neither the rate returned nor the
\* cache, so the later providers' answers are left out here.
ConsumedFetches(p, t) ==
    IF is_cache_valid(p, t)
    THEN {<<NoRate, NoRate, NoRate>>}
    ELSE {f \in FetchInputs : f[2] = NoRate /\ f[3] = NoRate}

RateCalls(p, t) == {get_usd_krw_rate(p, t, f) : f \in ConsumedFetches(p, t)}

\* the readings of time.time() a later request of the same call can get: the
\* venue and provider requests in between take time, so the clock may have
\* moved on by a tick
Later(t) == {t2 \in {t, t + 1} : t2 <= MaxTime}

\* PremiumInfo (premium_calculator.py:13-30)
NoInfo == [symbol |-> None]

PremiumInfo(symbol, upbit_price, binance_usdt, binance_krw, rate) ==
    [symbol             |-> symbol,
     upbit_price_krw    |-> upbit_price,
     binance_price_usdt |-> binance_usdt,
     binance_price_krw  |-> binance_krw,
     premium_rate       |-> RNorm(Rat((upbit_price - binance_krw) * 100, binance_krw)),
     usd_krw_rate       |-> rate]

PremiumResult(p, info, upbit_ok, binance_ok, rates) ==
    [p |-> p, info |-> info, upbit_ok |-> upbit_ok, binance_ok |-> binance_ok,
     rates |-> rates]

\* Mutant of calculate_premium: a missing rate is replaced by the rate 1.
calculate_premium_defaulting_rate(p, t, symbol) ==
    UNION {
      IF u = Raises
      THEN {PremiumResult(p, NoInfo, FALSE, FALSE, << >>)}
      ELSE UNION {
        IF b = Raises
        THEN {PremiumResult(p, NoInfo, TRUE, FALSE, << >>)}
        ELSE {IF rc.rate = NoRate
              THEN PremiumResult(rc.p, PremiumInfo(symbol, u, b, b, 1),
                                 TRUE, TRUE, <<rc.rate>>)
              ELSE PremiumResult(rc.p, PremiumInfo(symbol, u, b, b * rc.rate, rc.rate),
                                 TRUE, TRUE, <<rc.rate>>)
              : rc \in RateCalls(p, t)}
        : b \in BinanceTickerResults}
      : u \in UpbitTickerResults("KRW-" \o symbol)}

\* premium_calculator.py:71-107
calculate_premium(p, t, symbol) ==
    UNION {
      IF u = Raises
      THEN {PremiumResult(p, NoInfo, FALSE, FALSE, << >>)}
      ELSE UNION {
        IF b = Raises
        THEN {PremiumResult(p, NoInfo, TRUE, FALSE, << >>)}
        ELSE {IF rc.rate = NoRate
              THEN PremiumResult(rc.p, NoInfo, TRUE, TRUE, <<rc.rate>>)
              ELSE PremiumResult(rc.p, PremiumInfo(symbol, u, b, b * rc.rate, rc.rate),
                                 TRUE, TRUE, <<rc.rate>>)
              : rc \in RateCalls(p, t)}
        : b \in BinanceTickerResults}
      : u \in UpbitTickerResults("KRW-" \o symbol)}

\* premium_calculator.py:109-139: USDT is worth 1 USD, so its theoretical
\* price in KRW is the rate
calculate_tether_premium(p, t) ==
    UNION {
      IF u = Raises
      THEN {PremiumResult(p, NoInfo, FALSE, TRUE, << >>)}
      ELSE {IF rc.rate = NoRate
            THEN PremiumResult(rc.p, NoInfo, TRUE, TRUE, <<rc.rate>>)
            ELSE PremiumResult(rc.p, PremiumInfo("USDT", u, 1, rc.rate, rc.rate),
                               TRUE, TRUE, <<rc.rate>>)
            : rc \in RateCalls(p, t)}
      : u \in UpbitTickerResults("KRW-USDT")}

\* the fee structure (premium_calculator.py:57-69); USDT stands for its
\* TRC20 entry (premium_calculator.py:220-222)
BINANCE_TRADING_FEE == Rat(1, 1000)
UPBIT_TRADING_FEE   == Rat(5, 10000)
WITHDRAWAL_FEES ==
    [BTC |-> Rat(1, 2000), ETH |-> Rat(1, 200), USDT |-> Rat(1, 1),
     XRP |-> Rat(1, 4), ADA |-> Rat(1, 1), SOL |-> Rat(1, 100),
     DOT |-> Rat(1, 10), AVAX |-> Rat(1, 100)]

\* premium_calculator.py:215-231, given what its own price request returned
get_withdrawal_fee_rate(coin_symbol, coin_price) ==
    IF coin_symbol \notin DOMAIN WITHDRAWAL_FEES THEN Rat(1, 1000)
    ELSE IF coin_price = Raises \/ coin_price = 0 THEN Rat(1, 1000)
    ELSE RDivInt(WITHDRAWAL_FEES[coin_symbol], coin_price)

\* premium_calculator.py:203-213, in percent
calculate_total_fees(coin_symbol, coin_price) ==
    RMulInt(RAdd(RAdd(RAdd(RMulInt(BINANCE_TRADING_FEE, 2),
                           RMulInt(UPBIT_TRADING_FEE, 2)),
                      get_withdrawal_fee_rate(coin_symbol, coin_price)),
                 Rat(1, 10000)),
            100)

\* the sums of price * qty over the top five levels of each side of the two
\* books (premium_calculator.py:242-248), Upbit's in KRW and Binance's in
\* USDT; ok is FALSE when a book cannot be read
Books(upbit_bid, upbit_ask, binance_bid, binance_ask) ==
    [ok |-> TRUE, upbit_bid |-> upbit_bid, upbit_ask |-> upbit_ask,
     binance_bid |-> binance_bid, binance_ask |-> binance_ask]

BookResults ==
    {[ok |-> FALSE], Books(10, 20, 10, 20), Books(100, 100, 100, 100)}

Min2(a, b) == IF a < b THEN a ELSE b
Max2(a, b) == IF a > b THEN a ELSE b

\* premium_calculator.py:233-265.  The sums are multiples of 10, so 30% of
\* the smallest is the integer computed here.  A book that cannot be read
\* raises before the rate is asked for; a missing rate raises in the
\* multiplication; both end in min_amount.
calculate_optimal_trade_amount(p, t, min_amount, max_amount) ==
    UNION {
      IF ~books.ok
      THEN {[p |-> p, amount |-> min_amount, rates |-> << >>, books |-> books]}
      ELSE {IF rc.rate = NoRate
            THEN [p |-> rc.p, amount |-> min_amount, rates |-> <<rc.rate>>,
                  books |-> books]
            ELSE LET available_liquidity ==
                       (Min2(Min2(books.upbit_bid, books.upbit_ask),
                             Min2(books.binance_bid * rc.rate,
                                  books.binance_ask * rc.rate)) * 3) \div 10
                 IN  [p |-> rc.p,
                      amount |-> Max2(min_amount, Min2(available_liquidity, max_amount)),
                      rates |-> <<rc.rate>>, books |-> books]
            : rc \in RateCalls(p, t)}
      : books \in BookResults}

\* the outcome of check_arbitrage_opportunity: what it returned (opp), the
\* provider state and clock reading it leaves, and what it computed on the way
CheckResult(p, opp, coin_info, tether_info, rates, total_fees, books, t) ==
    [p |-> p, opp |-> opp, coin_info |-> coin_info, tether_info |-> tether_info,
     rates |-> rates, total_fees |-> total_fees, books |-> books, t |-> t]

\* Mutant of EmittedOpportunities: every opportunity is labelled forward.
EmittedOpportunities_always_forward(p, t, coin_symbol, direction, coin_info, tether_info, total_fees, profit_rate, safety_margin, min_amount, max_amount, rates) ==
    {CheckResult(sz.p,
                 Opportunity(coin_symbol, "forward", sz.amount, profit_rate,
                             total_fees, safety_margin)
                   @@ [coin_premium |-> coin_info.premium_rate,
                       tether_premium |-> tether_info.premium_rate],
                 coin_info, tether_info, rates \o sz.rates, total_fees, sz.books, t)
     : sz \in calculate_optimal_trade_amount(p, t, min_amount, max_amount)}

\* the opportunity built at premium_calculator.py:164-176 and 183-195
EmittedOpportunities(p, t, coin_symbol, direction, coin_info, tether_info, total_fees, profit_rate, safety_margin, min_amount, max_amount, rates) ==
    {CheckResult(sz.p,
                 Opportunity(coin_symbol, direction, sz.amount, profit_rate,
                             total_fees, safety_margin)
                   @@ [coin_premium |-> coin_info.premium_rate,
                       tether_premium |-> tether_info.premium_rate],
                 coin_info, tether_info, rates \o sz.rates, total_fees, sz.books, t)
     : sz \in calculate_optimal_trade_amount(p, t, min_amount, max_amount)}

\* Mutant of check_arbitrage_opportunity: the profit rate is compared with
\* the fees alone, the safety margin left out of the threshold.
check_arbitrage_opportunity_ignoring_margin(p, t, coin_symbol, safety_margin, min_trade_amount_krw, max_trade_amount_krw) ==
    UNION {
      IF cp.info = NoInfo
      THEN {CheckResult(cp.p, NoOpp, cp.info, NoInfo, cp.rates, RZero,
                        [ok |-> FALSE], t)}
      ELSE UNION { UNION {
        IF tp.info = NoInfo
        THEN {CheckResult(tp.p, NoOpp, cp.info, tp.info, cp.rates \o tp.rates,
                          RZero, [ok |-> FALSE], t1)}
        ELSE UNION { UNION {
          LET total_fees == calculate_total_fees(coin_symbol, fee_price)
              premium    == cp.info.premium_rate
              tether     == tp.info.premium_rate
              rates      == cp.rates \o tp.rates
              none       == {CheckResult(tp.p, NoOpp, cp.info, tp.info, rates,
                                         total_fees, [ok |-> FALSE], t1)}
          IN  IF premium.n < 0
              THEN LET profit_rate == RSub(RAbs(premium), tether)
                   IN  IF RGt(profit_rate, total_fees)
                       THEN EmittedOpportunities(tp.p, t2, coin_symbol, "forward",
                                cp.info, tp.info, total_fees, profit_rate,
                                safety_margin, min_trade_amount_krw,
                                max_trade_amount_krw, rates)
                       ELSE none
              ELSE IF premium.n > 0
              THEN LET profit_rate == RSub(premium, tether)
                   IN  IF RGt(profit_rate, total_fees)
                       THEN EmittedOpportunities(tp.p, t2, coin_symbol, "reverse",
                                cp.info, tp.info, total_fees, profit_rate,
                                safety_margin, min_trade_amount_krw,
                                max_trade_amount_krw, rates)
                       ELSE none
              ELSE none
          : fee_price \in {Raises, cp.info.binance_price_usdt}}
          : t2 \in Later(t1)}
        : tp \in calculate_tether_premium(cp.p, t1)}
        : t1 \in Later(t)}
      : cp \in calculate_premium(p, t, coin_symbol)}

\* premium_calculator.py:141-201
check_arbitrage_opportunity(p, t, coin_symbol, safety_margin, min_trade_amount_krw, max_trade_amount_krw) ==
    UNION {
      IF cp.info = NoInfo
      THEN {CheckResult(cp.p, NoOpp, cp.info, NoInfo, cp.rates, RZero,
                        [ok |-> FALSE], t)}
      ELSE UNION { UNION {
        IF tp.info = NoInfo
        THEN {CheckResult(tp.p, NoOpp, cp.info, tp.info, cp.rates \o tp.rates,
                          RZero, [ok |-> FALSE], t1)}
        ELSE UNION { UNION {
          LET total_fees == calculate_total_fees(coin_symbol, fee_price)
              premium    == cp.info.premium_rate
              tether     == tp.info.premium_rate
              rates      == cp.rates \o tp.rates
              none       == {CheckResult(tp.p, NoOpp, cp.info, tp.info, rates,
                                         total_fees, [ok |-> FALSE], t1)}
          IN  IF premium.n < 0
              THEN LET profit_rate == RSub(RAbs(premium), tether)
                   IN  IF RGt(profit_rate, RAdd(total_fees, safety_margin))
                       THEN EmittedOpportunities(tp.p, t2, coin_symbol, "forward",
                                cp.info, tp.info, total_fees, profit_rate,
                                safety_margin, min_trade_amount_krw,
                                max_trade_amount_krw, rates)
                       ELSE none
              ELSE IF premium.n > 0
              THEN LET profit_rate == RSub(premium, tether)
                   IN  IF RGt(profit_rate, RAdd(total_fees, safety_margin))
                       THEN EmittedOpportunities(tp.p, t2, coin_symbol, "reverse",
                                cp.info, tp.info, total_fees, profit_rate,
                                safety_margin, min_trade_amount_krw,
                                max_trade_amount_krw, rates)
                       ELSE none
              ELSE none
          : fee_price \in {Raises, cp.info.binance_price_usdt}}
          : t2 \in Later(t1)}
        : tp \in calculate_tether_premium(cp.p, t1)}
        : t1 \in Later(t)}
      : cp \in calculate_premium(p, t, coin_symbol)}

(***************************************************************************)
(* SpecPremium: one PremiumCalculator over one ExchangeRateProvider,       *)
(* called at arbitrary times for the monitored symbols; the outcome of a   *)
(* call is held in premObs until the caller has taken it                   *)
(***************************************************************************)
\* config.safety_margin_percent (config.py:19)
safety_margin_percent == Rat(3, 2)

\* min_trade_amount_krw and max_trade_amount_krw as the calculator is
\* handed them (main.py:351-352), in units of the minimum
TradeLimitInputs == {[min |-> 1, max |-> 5]}

\* the safety margins the calculator is handed: the configured one, and one
\* that puts fees + margin exactly on a profit rate of 10 (fees of 0.41)
SafetyMarginInputs == {safety_margin_percent, Rat(959, 100)}


CallCalculatePremium ==
    /\ premObs = NoObs
    /\ \E symbol \in Coins :
         \E out \in calculate_premium(P, now, symbol) :
            /\ SetP(out.p)
            /\ premObs' = [op |-> "calculate_premium", symbol |-> symbol,
                           upbit_ok |-> out.upbit_ok, binance_ok |-> out.binance_ok,
                           rates |-> out.rates, info |-> out.info]
    /\ rateObs' = NoObs
    /\ UNCHANGED <<riskVars, today, obsVars, concVars, monVars, listVars, botVars, tradeVars, now, stratVars, mainVars, lockVars, simVars>>

CallCalculateTetherPremium ==
    /\ premObs = NoObs
    /\ \E out \in calculate_tether_premium(P, now) :
            /\ SetP(out.p)
            /\ premObs' = [op |-> "calculate_tether_premium", symbol |-> "USDT",
                           upbit_ok |-> out.upbit_ok, binance_ok |-> out.binance_ok,
                           rates |-> out.rates, info |-> out.info]
    /\ rateObs' = NoObs
    /\ UNCHANGED <<riskVars, today, obsVars, concVars, monVars, listVars, botVars, tradeVars, now, stratVars, mainVars, lockVars, simVars>>

CallCheckArbitrageOpportunity ==
    /\ premObs = NoObs
    /\ \E symbol \in Coins, lim \in TradeLimitInputs, margin \in SafetyMarginInputs :
         \E out \in check_arbitrage_opportunity(P, now, symbol,
                        margin, lim.min, lim.max) :
            /\ SetP(out.p)
            /\ now' = out.t
            /\ premObs' = [op |-> "check_arbitrage_opportunity", symbol |-> symbol,
                           rates |-> out.rates, coin_info |-> out.coin_info,
                           tether_info |-> out.tether_info, opp |-> out.opp,
                           total_fees |-> out.total_fees, books |-> out.books,
                           safety_margin |-> margin,
                           min_amount |-> lim.min, max_amount |-> lim.max]
    /\ rateObs' = NoObs
    /\ UNCHANGED <<riskVars, today, obsVars, concVars, monVars, listVars, botVars, tradeVars, stratVars, mainVars, lockVars, simVars>>

\* the caller has taken the result of the last call
ResultTaken ==
    /\ premObs # NoObs
    /\ premObs' = NoObs
    /\ UNCHANGED <<riskVars, today, obsVars, concVars, monVars, listVars, botVars, tradeVars,
                   now, cache, last_update, fetched_at, rateObs, stratVars, mainVars, lockVars, simVars>>

NextPremium ==
    \/ TimePasses
    \/ ResultTaken
    \/ CallCalculatePremium
    \/ CallCalculateTetherPremium
    \/ CallCheckArbitrageOpportunity

SpecPremium == Init /\ [][NextPremium]_vars

(***************************************************************************)
(* SpecMonitor: the orchestrator's _monitor_premiums task (main.py:272-323) *)
(* with the bookkeeping of coins whose premium could not be calculated.    *)
(* A pass over the coins has no await in it; it is split into one step per *)
(* coin so that each coin's outcome can be observed.                       *)
(***************************************************************************)
\* self.max_orderbook_failures (main.py:134)
max_orderbook_failures == 5

\* _handle_orderbook_failure (main.py:540-558): the counts and the set of
\* skipped coins after the call
handle_orderbook_failure(counts, failed, coin) ==
    LET old == IF coin \in DOMAIN counts THEN counts[coin] ELSE 0
        new == [c \in DOMAIN counts \cup {coin} |->
                    IF c = coin THEN old + 1 ELSE counts[c]]
    IN  [counts |-> new,
         failed |-> IF new[coin] >= max_orderbook_failures
                    THEN failed \cup {coin}
                    ELSE failed]

\* loop top of _monitor_premiums (main.py:274-276)
PremiumWake ==
    /\ premPc = "sleeping"
    /\ IF running
       THEN premPc' = "scan" /\ premIdx' = 1
       ELSE premPc' = "exited" /\ UNCHANGED premIdx
    /\ premObs' = NoObs
    /\ UNCHANGED <<riskVars, today, obsVars, concVars, botVars, tradeVars, listVars,
                   now, cache, last_update, fetched_at, rateObs, slippage_call,
                   orderbook_failure_counts, failed_orderbook_coins, data_failures, stratVars, mainVars, lockVars, simVars>>

\* one coin of the for loop (main.py:276-303).  data_failures counts the
\* consecutive passes in which a venue request for the coin's market data
\* failed.
PremiumScanCoin ==
    /\ premPc = "scan"
    /\ premIdx <= Len(monitor_list)
    /\ premIdx' = premIdx + 1
    /\ LET coin == monitor_list[premIdx]
       IN  IF coin \in failed_orderbook_coins
           THEN /\ premObs' = NoObs
                /\ UNCHANGED <<cache, last_update, fetched_at, orderbook_failure_counts,
                               failed_orderbook_coins, data_failures, stratVars, mainVars, lockVars, simVars>>
           ELSE \E out \in calculate_premium(P, now, coin) :
                  LET h == handle_orderbook_failure(orderbook_failure_counts,
                                                    failed_orderbook_coins, coin)
                  IN  /\ SetP(out.p)
                      /\ premObs' = [op |-> "calculate_premium", symbol |-> coin,
                                     upbit_ok |-> out.upbit_ok,
                                     binance_ok |-> out.binance_ok,
                                     rates |-> out.rates, info |-> out.info]
                      /\ IF out.info # NoInfo
                         THEN /\ orderbook_failure_counts' =
                                     [c \in DOMAIN orderbook_failure_counts |->
                                         IF c = coin THEN 0
                                         ELSE orderbook_failure_counts[c]]
                              /\ UNCHANGED failed_orderbook_coins
                         ELSE /\ orderbook_failure_counts' = h.counts
                              /\ failed_orderbook_coins' = h.failed
                      /\ data_failures' =
                             [data_failures EXCEPT ![coin] =
                                 IF out.upbit_ok /\ out.binance_ok THEN 0 ELSE @ + 1]
    /\ UNCHANGED <<riskVars, today, obsVars, concVars, botVars, tradeVars, listVars,
                   now, rateObs, slippage_call, premPc, stratVars, mainVars, lockVars, simVars>>

\* after the for loop: the tether premium, then the sleep (main.py:305-320)
PremiumScanEnd ==
    /\ premPc = "scan"
    /\ premIdx > Len(monitor_list)
    /\ \E out \in calculate_tether_premium(P, now) :
         /\ SetP(out.p)
         /\ premObs' = [op |-> "calculate_tether_premium", symbol |-> "USDT",
                        upbit_ok |-> out.upbit_ok, binance_ok |-> out.binance_ok,
                        rates |-> out.rates, info |-> out.info]
    /\ premPc' = "sleeping"
    /\ UNCHANGED <<riskVars, today, obsVars, concVars, botVars, tradeVars, listVars,
                   now, rateObs, slippage_call, premIdx,
                   orderbook_failure_counts, failed_orderbook_coins, data_failures, stratVars, mainVars, lockVars, simVars>>

NextMonitor ==
    \/ StartBot
    \/ PremiumWake
    \/ PremiumScanCoin
    \/ PremiumScanEnd

SpecMonitor == InitBot /\ [][NextMonitor]_vars

(***************************************************************************)
(* SpecSlippage: RiskManager.check_slippage applied to expected prices,    *)
(* executed prices around the two limits, and both sides.  It reads the    *)
(* limit only and writes nothing.                                          *)
(***************************************************************************)
\* config.max_slippage_percent (config.py:26)
max_slippage_percent == Rat(1, 2)

\* str.upper() on the sides the callers pass
Upper(side) == IF side \in {"buy", "BUY"} THEN "BUY" ELSE "SELL"

\* Mutant of check_slippage: a slippage equal to the limit is refused.
check_slippage_refusing_at_limit(expected_price, actual_price, side) ==
    LET slippage ==
            IF Upper(side) = "BUY"
            THEN RNorm(Rat((actual_price - expected_price) * 100, expected_price))
            ELSE RNorm(Rat((expected_price - actual_price) * 100, expected_price))
    IN  IF RGt(slippage, max_slippage_percent) \/ slippage = max_slippage_percent
        THEN <<FALSE, slippage>>
        ELSE <<TRUE, slippage>>

\* risk_manager.py:222-235
check_slippage(expected_price, actual_price, side) ==
    LET slippage ==
            IF Upper(side) = "BUY"
            THEN RNorm(Rat((actual_price - expected_price) * 100, expected_price))
            ELSE RNorm(Rat((expected_price - actual_price) * 100, expected_price))
    IN  IF RGt(slippage, max_slippage_percent)
        THEN <<FALSE, slippage>>
        ELSE <<TRUE, slippage>>

\* expected prices in ticks, and executed prices at, next to and beyond the
\* limits of 0.5% on either side
ExpectedPriceInputs == {200, 400, 1000}
PriceMoveInputs == {-6, -5, -2, -1, 0, 1, 2, 5, 6}
SideInputs == {"BUY", "buy", "SELL", "sell"}

CallCheckSlippage ==
    /\ slippage_call = NoObs
    /\ \E expected \in ExpectedPriceInputs, move \in PriceMoveInputs, side \in SideInputs :
         slippage_call' = [op |-> "check_slippage", expected_price |-> expected,
                           actual_price |-> expected + move, side |-> side,
                           result |-> check_slippage(expected, expected + move, side)]
    /\ UNCHANGED <<riskVars, today, obsVars, concVars, botVars, tradeVars, rateVars,
                   orderbook_failure_counts, failed_orderbook_coins, premPc,
                   premIdx, data_failures, listVars, stratVars, mainVars, lockVars, simVars>>

\* the caller has taken the pair
SlippageTaken ==
    /\ slippage_call # NoObs
    /\ slippage_call' = NoObs
    /\ UNCHANGED <<riskVars, today, obsVars, concVars, botVars, tradeVars, rateVars,
                   orderbook_failure_counts, failed_orderbook_coins, premPc,
                   premIdx, data_failures, listVars, stratVars, mainVars, lockVars, simVars>>

NextSlippage ==
    \/ CallCheckSlippage
    \/ SlippageTaken

SpecSlippage == Init /\ [][NextSlippage]_vars

(***************************************************************************)
(* SpecReads: the trades of SpecVolume over a change of the local date,    *)
(* with one further caller that makes the calls that report on the         *)
(* RiskManager -- can_execute_trade, check_emergency_stop,                 *)
(* get_trading_metrics, check_slippage -- and takes what a call returned   *)
(* before anything else happens.                                           *)
(***************************************************************************)
ReadsIdle == lastResult = None /\ slippage_call = NoObs

ReadsTrade == ReadsIdle /\ NextVolume
ReadsDayPasses == ReadsIdle /\ DayPasses
ReadsCanExecuteTrade == ReadsIdle /\ CallCanExecuteTrade
ReadsCheckEmergencyStop == ReadsIdle /\ CallCheckEmergencyStop
ReadsGetTradingMetrics == ReadsIdle /\ CallGetTradingMetrics

\* check_slippage for a buy expected at 1000 ticks
ReadsCheckSlippage ==
    /\ ReadsIdle
    /\ CallCheckSlippage
    /\ slippage_call'.expected_price = 1000
    /\ slippage_call'.side = "BUY"

NextReads ==
    \/ ReadsTrade
    \/ ReadsDayPasses
    \/ ReadsCanExecuteTrade
    \/ ReadsCheckEmergencyStop
    \/ ReadsGetTradingMetrics
    \/ ReadsCheckSlippage
    \/ TakeResult
    \/ SlippageTaken

SpecReads == Init /\ [][NextReads]_vars

(***************************************************************************)
(* SpecLock: callers of the five locked operations with the lock itself.   *)
(* A call waits for the lock, enters its body, and leaves it releasing the *)
(* lock; the await of _check_daily_reset inside two of the bodies is taken *)
(* as a point where other tasks may run.                                   *)
(***************************************************************************)
\* Mutant of CanAcquire: a caller enters whether the lock is held or not.
CanAcquire_ignoring_holder(locked) == TRUE

\* 'async with self._lock' (risk_manager.py:52, 81, 90, 115, 131): the
\* caller enters when the lock is not held
CanAcquire(locked) == ~locked

\* the operations with the arguments a caller passes
LockOps(c) ==
    {[op |-> "can_execute_trade", opp |-> o] : o \in StartInputs}
    \cup {[op |-> "register_trade_start", trade_id |-> c, opp |-> o] :
             o \in StartInputs}
    \cup {[op |-> "register_trade_complete", trade_id |-> c,
           profit_krw |-> 1, success |-> b] : b \in BOOLEAN}
    \cup {[op |-> "check_emergency_stop"], [op |-> "get_trading_metrics"]}

\* the operations whose body starts with 'await self._check_daily_reset()'
ResetsFirst == {"can_execute_trade", "get_trading_metrics"}

\* the fields of the RiskManager after an operation's body, or after the
\* rest of it past the daily reset, has run on rm
BodyEffect(call, rm) ==
    CASE call.op = "register_trade_start" ->
             register_trade_start(rm, call.trade_id, call.opp)
      [] call.op = "register_trade_complete" ->
             register_trade_complete(rm, call.trade_id, call.profit_krw,
                                     call.success)
      [] OTHER -> rm

\* the whole operation run on rm without interruption, at the date its
\* daily reset read
SerialEffect(call, rm) ==
    CASE call.op = "can_execute_trade" ->
             can_execute_trade(rm, call.opp, call.date).rm
      [] call.op = "get_trading_metrics" ->
             get_trading_metrics(rm, call.date)
      [] OTHER -> BodyEffect(call, rm)

LockCall(c) ==
    /\ lockPc[c] = "idle"
    /\ daily_metrics.total_trades < MaxTrades
    /\ \E call \in LockOps(c) :
         lockOp' = [lockOp EXCEPT ![c] = call]
    /\ lockPc' = [lockPc EXCEPT ![c] = "waiting"]
    /\ UNCHANGED <<riskVars, today, obsVars, concVars, botVars, tradeVars,
                   rateVars, monVars, listVars, stratVars, mainVars,
                   lock_locked, entry_rm, simVars>>

LockAcquire(c) ==
    /\ lockPc[c] = "waiting"
    /\ CanAcquire(lock_locked)
    /\ lock_locked' = TRUE
    /\ entry_rm' = RM
    /\ lockPc' = [lockPc EXCEPT ![c] = "entered"]
    /\ UNCHANGED <<riskVars, today, obsVars, concVars, botVars, tradeVars,
                   rateVars, monVars, listVars, stratVars, mainVars, lockOp, simVars>>

\* _check_daily_reset at the head of a body (risk_manager.py:54, 133)
LockReset(c) ==
    /\ lockPc[c] = "entered"
    /\ lockOp[c].op \in ResetsFirst
    /\ SetRM(check_daily_reset(RM, today))
    /\ lockOp' = [lockOp EXCEPT ![c] =
                     [op |-> lockOp[c].op, date |-> today] @@ lockOp[c]]
    /\ lockPc' = [lockPc EXCEPT ![c] = "reset_done"]
    /\ UNCHANGED <<today, obsVars, concVars, botVars, tradeVars, rateVars,
                   monVars, listVars, stratVars, mainVars, lock_locked, entry_rm,
                   simVars>>

\* the rest of the body, and the release of the lock on leaving it
LockRelease(c) ==
    /\ \/ lockPc[c] = "reset_done"
       \/ lockPc[c] = "entered" /\ lockOp[c].op \notin ResetsFirst
    /\ SetRM(BodyEffect(lockOp[c], RM))
    /\ lock_locked' = FALSE
    /\ entry_rm' = NoObs
    /\ lockOp' = [lockOp EXCEPT ![c] = NoObs]
    /\ lockPc' = [lockPc EXCEPT ![c] = "idle"]
    /\ UNCHANGED <<today, obsVars, concVars, botVars, tradeVars, rateVars,
                   monVars, listVars, stratVars, mainVars, simVars>>

NextLock ==
    \/ DayPasses
    \/ \E c \in LockCallers : LockCall(c)
    \/ \E c \in LockCallers : LockAcquire(c)
    \/ \E c \in LockCallers : LockReset(c)
    \/ \E c \in LockCallers : LockRelease(c)

SpecLock == Init /\ [][NextLock]_vars

(***************************************************************************)
(* SpecPersist: a paper-mode VirtualBalanceManager under any sequence of   *)
(* its mutating operations, with restarts of the process in between        *)
(***************************************************************************)
SimUnchanged ==
    UNCHANGED <<riskVars, today, obsVars, concVars, botVars, tradeVars, rateVars,
                monVars, listVars, stratVars, mainVars, lockVars>>

LockBalance ==
    /\ \E e \in Exchanges, a \in Assets, amount \in 1..2 :
         LET r == lock_balance(vbm, e, a, amount)
         IN  /\ Outcome(r)
             /\ sim_result' = Ending(r)
    /\ SimUnchanged

UnlockBalance ==
    /\ \E e \in Exchanges, a \in Assets, amount \in 1..2 :
         LET r == unlock_balance(vbm, e, a, amount)
         IN  /\ Outcome(r)
             /\ sim_result' = Ending(r)
    /\ SimUnchanged

\* a market order of a mock client (mock_exchange_clients.py:67-75,
\* 313-321) at one of the fee rates
ExecuteTradeAt(fee_rates) ==
    /\ vbm.trade_counter < MaxTrades
    /\ \E e \in Exchanges, side \in {"buy", "sell"}, quantity \in 1..2,
          fee_rate \in fee_rates :
         LET r == execute_trade(vbm, e, side, quantity, fee_rate)
         IN  /\ Outcome(r)
             /\ sim_result' = Ending(r)
    /\ SimUnchanged

\* a withdrawal of a mock client (mock_exchange_clients.py:131-155,
\* 456-480) to one of the destinations with one of the network fees
SimulateTransferTo(destinations, network_fees) ==
    /\ vbm.transfer_counter < MaxTrades
    /\ \E a \in Assets, amount \in 1..2, from \in Exchanges,
          network_fee \in network_fees :
         \E to \in destinations \ {from} :
             LET r == simulate_transfer(vbm, a, amount, from, to, network_fee)
             IN  /\ Outcome(r)
                 /\ sim_result' = Ending(r)
    /\ SimUnchanged

\* SpecPersist takes the trades without a fee and the transfers between the
\* two venues without a network fee
ExecuteTrade == ExecuteTradeAt({0})

SimulateTransfer == SimulateTransferTo(Exchanges, {0})

ResetState ==
    /\ Outcome(reset_state(initial_balances))
    /\ sim_result' = None
    /\ SimUnchanged

\* the process starts again: __init__ loads the file when it exists
\* (virtual_balance_manager.py:91-101)
Restart ==
    /\ vbm' = IF state_file.exists
              THEN load_state(state_file)
              ELSE NewManager(initial_balances)
    /\ sim_result' = None
    /\ UNCHANGED state_file
    /\ SimUnchanged

NextPersist ==
    \/ LockBalance
    \/ UnlockBalance
    \/ ExecuteTrade
    \/ SimulateTransfer
    \/ ResetState
    \/ Restart

SpecPersist == Init /\ [][NextPersist]_vars

(***************************************************************************)
(* SpecLedger: the operations of a VirtualBalanceManager in any order, for *)
(* every fee from none to more than the proceeds of the trade and for      *)
(* withdrawals to the other venue and to an address of neither venue       *)
(***************************************************************************)
\* fee_rate of execute_trade: no fee, the whole of total_cost, twice it
fee_rates == {0, 1, 2}

\* network_fee of simulate_transfer (mock_exchange_clients.py:141-147)
network_fees == {0, 1}

\* to_exchange of a mock client's withdraw: the other venue, or "external"
\* for an address that does not name it (mock_exchange_clients.py:135-138,
\* 460-463)
Destinations == Exchanges \cup {"external"}

NextLedger ==
    \/ LockBalance
    \/ UnlockBalance
    \/ ExecuteTradeAt(fee_rates)
    \/ SimulateTransferTo(Destinations, network_fees)

SpecLedger == Init /\ [][NextLedger]_vars

(***************************************************************************)
(* SpecPreflight: live trades of the orchestrator, for every answer of the *)
(* rate providers and EX-U balances at and around the required amount      *)
(***************************************************************************)
\* no provider answers, the first does, only the second does with another
\* rate
PreflightAnswers == {<<NoRate, NoRate, NoRate>>, <<1, 1, 1>>, <<NoRate, 2, 2>>}

\* free USDT around 0.505 (rate 2), around 1.00 and 1.01 (rate 1)
UsdtFreeInputs == {0, 504, 505, 506, 1000, 1009, 1010, 1011}

InitPreflight ==
    \E answers \in PreflightAnswers, usdt \in UsdtFreeInputs :
        InitEnv(ZeroMetrics(0), FALSE, answers, usdt, 0, TRUE)

NextLive ==
    \/ StartBot
    \/ OppWake
    \/ OppScanEnd
    \/ OppScanCoin
    \/ StepCheck
    \/ StepOrder
    \/ StepOrderSleep
    \/ OrderWake
    \/ StepTransfer
    \/ WaitStart
    \/ Poll
    \/ CreditDeposit
    \/ Report

SpecPreflight == InitPreflight /\ [][NextLive]_vars

(***************************************************************************)
(* SpecDeposit: live trades of the orchestrator on an account with and     *)
(* without an earlier deposit of the transferred asset                     *)
(***************************************************************************)
InitDeposit ==
    \E prior \in BOOLEAN :
        InitEnv(ZeroMetrics(0), FALSE, <<1, 1, 1>>, 2000, 0, prior)

SpecDeposit == InitDeposit /\ [][NextLive]_vars

(***************************************************************************)
(* SpecFill: live trades of the orchestrator on venues that fill market    *)
(* orders at, within and beyond the slippage limit of the quoted price     *)
(***************************************************************************)
\* fills at the quoted price, at the limit of 0.5% and one tick beyond it
FillInputs == {0, 5, 6}

InitFill ==
    \E fill \in FillInputs :
        InitEnv(ZeroMetrics(0), FALSE, <<1, 1, 1>>, 2000, fill, TRUE)

SpecFill == InitFill /\ [][NextLive]_vars

(***************************************************************************)
(* SpecCall: the calls of execute_arbitrage the orchestrator makes, in     *)
(* paper and in live mode, with the event loop running the strategy        *)
(* whenever it can take a step: a blocking venue call returns or raises,   *)
(* and a sleep of the strategy ends.  Whether and when the venue credits   *)
(* a deposit is left open.                                                 *)
(***************************************************************************)
InitCall ==
    \E paper \in BOOLEAN, prior \in BOOLEAN :
        InitEnv(ZeroMetrics(0), paper, <<1, 1, 1>>, 2000, 0, prior)

\* the steps of execute_arbitrage (forward_arbitrage.py:56-88,
\* reverse_arbitrage.py:53-88)
StrategyStep ==
    \/ StepCheck
    \/ StepOrder
    \/ StepOrderSleep
    \/ OrderWake
    \/ StepTransfer
    \/ PaperWake
    \/ WaitStart
    \/ Poll

NextCall ==
    \/ StartBot
    \/ OppWake
    \/ OppScanEnd
    \/ OppScanCoin
    \/ StrategyStep
    \/ CreditDeposit
    \/ Report

SpecCall == InitCall /\ [][NextCall]_vars /\ WF_vars(StrategyStep)

(***************************************************************************)
(* SpecReport: the same calls with both ways _execute_arbitrage ends: the  *)
(* completion call alone, or the completion call followed by the one of    *)
(* its error handler                                                       *)
(***************************************************************************)
NextReport ==
    \/ NextCall
    \/ ReportErrorPath

SpecReport == InitCall /\ [][NextReport]_vars

(***************************************************************************)
(* SpecWithdraw: the amounts the strategies' transfer steps withdraw,      *)
(* applied to free balances at and around the fees.  Balances are in       *)
(* units of 0.0001 of the asset, amounts in thousandths of that unit.      *)
(***************************************************************************)
\* reverse_arbitrage.py:367-377, in units of 0.0001 coin
_get_withdrawal_fee(coin) ==
    CASE coin = "BTC"  -> 5
      [] coin = "ETH"  -> 50
      [] coin = "XRP"  -> 2500
      [] coin = "ADA"  -> 10000
      [] coin = "SOL"  -> 100
      [] coin = "DOT"  -> 1000
      [] coin = "AVAX" -> 100
      [] OTHER         -> 0

\* the amount each transfer step passes to withdraw(), from the free balance
\* it has just read (forward_arbitrage.py:138-139, 211-212;
\* reverse_arbitrage.py:163-169, 270-271)
transfer_amount(step, coin, free) ==
    CASE step = "transfer_to_binance"      -> free * 999
      [] step = "transfer_usdt_to_upbit"   -> (free - 10000) * 1000
      [] step = "transfer_to_upbit"        -> (free - _get_withdrawal_fee(coin)) * 1000
      [] step = "transfer_usdt_to_binance" -> (free - 10000) * 1000

\* the asset a transfer step withdraws
TransferAsset(step, coin) ==
    IF step \in {"transfer_to_binance", "transfer_to_upbit"} THEN coin ELSE "USDT"

TransferSteps == {"transfer_to_binance", "transfer_usdt_to_upbit",
                  "transfer_to_upbit", "transfer_usdt_to_binance"}

\* coins of an opportunity: two of the fee table and one listed on both
\* venues that the table does not hold
TransferCoinInputs == {"BTC", "XRP", "DOGE"}

\* free balances of the source venue, at and around the fees
FreeInputs == {1, 4, 5, 6, 2499, 2500, 2501, 9999, 10000, 10001, 20000,
               50000, 100000, 1000000}

CallWithdraw ==
    /\ withdraw_call = NoObs
    /\ \E step \in TransferSteps, coin \in TransferCoinInputs, free \in FreeInputs :
         withdraw_call' = [op |-> "withdraw", step |-> step,
                           asset |-> TransferAsset(step, coin), free |-> free,
                           amount |-> transfer_amount(step, coin, free)]
    /\ UNCHANGED <<riskVars, today, obsVars, concVars, botVars, tradeVars, rateVars,
                   monVars, listVars, provider_answers, binance_usdt_free,
                   prior_deposit, market_fill, mainVars, lockVars, simVars>>

\* the venue has answered the withdrawal
WithdrawTaken ==
    /\ withdraw_call # NoObs
    /\ withdraw_call' = NoObs
    /\ UNCHANGED <<riskVars, today, obsVars, concVars, botVars, tradeVars, rateVars,
                   monVars, listVars, provider_answers, binance_usdt_free,
                   prior_deposit, market_fill, mainVars, lockVars, simVars>>

NextWithdraw ==
    \/ CallWithdraw
    \/ WithdrawTaken

SpecWithdraw == Init /\ [][NextWithdraw]_vars


(***************************************************************************)
(* Claims                                                                  *)
(***************************************************************************)

\* C1 (stated as claimed): risk ledger conservation -- in every reachable
\* state of one RiskManager, after any sequence of its operations and for
\* all trade ids, current_exposure_krw equals the sum of trade_amount_krw
\* over the entries of active_trades.
C1_LedgerConservation ==
    daily_metrics.current_exposure_krw = LedgerSum(RM)

\* C2 (stated as claimed): admission is race-free -- under any interleaving
\* of concurrent callers that each ask admission and register on approval,
\* the number of entries in active_trades never exceeds
\* max_concurrent_trades.
C2_AdmissionRaceFree ==
    Cardinality(DOMAIN active_trades) <= max_concurrent_trades

\* The five admission predicates of the claim, on the state and the
\* opportunity of the last can_execute_trade call.
P1_Concurrent == Cardinality(DOMAIN active_trades) < max_concurrent_trades
P2_Single     == lastOpp.trade_amount_krw <= max_single_trade_krw
P3_Daily      == daily_metrics.daily_volume_krw + lastOpp.trade_amount_krw
                     <= max_daily_volume_krw
P4_Exposure   == (daily_metrics.current_exposure_krw + lastOpp.trade_amount_krw) * 100
                     <= max_daily_volume_krw * max_exposure_percent
P5_Profit     == (lastOpp.expected_profit.n * lastOpp.total_fees.d
                     - lastOpp.total_fees.n * lastOpp.expected_profit.d)
                        * lastOpp.safety_margin.d
                 > lastOpp.safety_margin.n
                     * (lastOpp.expected_profit.d * lastOpp.total_fees.d)

\* C3: can_execute_trade approves iff all five predicates hold, and
\* otherwise returns false with the reason of the first predicate, in the
\* order 1..5, that fails -- whatever the later predicates say.
C3_FirstFailingReason ==
    lastOpp # NoOpp =>
        /\ lastResult[1] = (P1_Concurrent /\ P2_Single /\ P3_Daily
                               /\ P4_Exposure /\ P5_Profit)
        /\ lastResult[1] => lastResult[2] = "Trade approved"
        /\ ~P1_Concurrent =>
              lastResult[2] = "Maximum concurrent trades reached"
        /\ (P1_Concurrent /\ ~P2_Single) =>
              lastResult[2] = "Trade amount exceeds single trade limit"
        /\ (P1_Concurrent /\ P2_Single /\ ~P3_Daily) =>
              lastResult[2] = "Trade would exceed daily volume limit"
        /\ (P1_Concurrent /\ P2_Single /\ P3_Daily /\ ~P4_Exposure) =>
              lastResult[2] = "Trade would exceed maximum exposure limit"
        /\ (P1_Concurrent /\ P2_Single /\ P3_Daily /\ P4_Exposure /\ ~P5_Profit) =>
              lastResult[2] = "Trade opportunity no longer profitable"

\* C3 witness: an admission request that fails predicate 1 and also the
\* later predicates 2 and 5 was answered with the reason of predicate 1.
C3_Witness ==
    /\ lastOpp # NoOpp
    /\ ~P1_Concurrent /\ ~P2_Single /\ ~P5_Profit
    /\ lastResult = <<FALSE, "Maximum concurrent trades reached">>

\* C4 (stated as claimed): the emergency stop is a latch -- once
\* check_emergency_stop has reported tripped, every later can_execute_trade
\* returns false.
C4_StopLatch ==
    (stopReported /\ lastOpp # NoOpp) => lastResult[1] = FALSE

C6_InFlightTradeFinishes ==
    (botPhase = "ended" /\ trade_record # NoTrade) =>
        /\ trade_record.status \in {"completed", "failed"}
        /\ lastComplete.trade_id = trade_record.id
        /\ trade_record.id \notin DOMAIN active_trades
        /\ daily_metrics.current_exposure_krw = 0

\* C7: transfer timeout -- when the first transfer wait of a forward trade
\* has run out of its ceiling without confirming the deposit, the trade is
\* FAILED with 'transfer_to_binance' as its last recorded step and no sell
\* or later step attempted; the orchestrator's report of it is
\* register_trade_complete(id, 0, False), which takes effect exactly once:
\* the report step adds one to failed_trades, releases the trade's exposure
\* and removes its ledger entry, and no second call finds the trade.
C7_TimedOut ==
    /\ trade_record # NoTrade
    /\ trade_record.opportunity.direction = "forward"
    /\ timedOutStep = 2

C7_TransferTimeout ==
    /\ [](C7_TimedOut =>
            /\ trade_record.status = "failed"
            /\ trade_record.steps = <<"buy_upbit", "transfer_to_binance">>
            /\ statusHist = <<"pending", "buying_upbit",
                              "transferring_to_binance", "failed">>
            /\ IF oppPc = "report"
               THEN /\ completeEffects = 0
                    /\ trade_record.id \in DOMAIN active_trades
               ELSE /\ completeEffects = 1
                    /\ lastComplete = [trade_id |-> trade_record.id,
                                       profit_krw |-> 0, success |-> FALSE]
                    /\ trade_record.id \notin DOMAIN active_trades)
    /\ [][(C7_TimedOut /\ oppPc = "report" /\ oppPc' # "report") =>
            /\ daily_metrics'.failed_trades = daily_metrics.failed_trades + 1
            /\ daily_metrics'.successful_trades = daily_metrics.successful_trades
            /\ daily_metrics'.daily_loss_krw = daily_metrics.daily_loss_krw
            /\ daily_metrics'.daily_profit_krw = daily_metrics.daily_profit_krw
            /\ daily_metrics'.current_exposure_krw =
                  daily_metrics.current_exposure_krw
                    - trade_record.opportunity.trade_amount_krw
            /\ daily_metrics'.daily_volume_krw =
                  daily_metrics.daily_volume_krw
                    + trade_record.opportunity.trade_amount_krw]_vars

\* a forward trade in live mode whose first wait timed out and which has
\* been reported
C7_Witness ==
    /\ C7_TimedOut
    /\ ~dry_run
    /\ polls = TimeoutPolls
    /\ oppPc \in {"scan", "sleeping"}
    /\ completeEffects = 1
    /\ daily_metrics.failed_trades >= 1

\* C8: trade state monotonicity -- the sequence of status values a trade
\* has taken is a prefix of its variant's path from PENDING to COMPLETED,
\* optionally ended by FAILED entered from a non-terminal status; so status
\* never moves backward and COMPLETED and FAILED are never left.
ForwardPath ==
    <<"pending", "buying_upbit", "transferring_to_binance", "selling_binance",
      "transferring_to_upbit", "selling_usdt_upbit", "completed">>

ReversePath ==
    <<"pending", "buying_coin_binance", "transferring_to_upbit", "selling_upbit",
      "buying_usdt_upbit", "transferring_to_binance", "completed">>

IsPrefix(s, t) ==
    /\ Len(s) <= Len(t)
    /\ \A i \in 1..Len(s) : s[i] = t[i]

AllowedHistory(h, path) ==
    \/ (h # << >> /\ IsPrefix(h, path))
    \/ /\ Len(h) >= 2
       /\ h[Len(h)] = "failed"
       /\ Len(h) - 1 < Len(path)
       /\ IsPrefix(SubSeq(h, 1, Len(h) - 1), path)

C8_StateMonotonicity ==
    trade_record # NoTrade =>
        /\ AllowedHistory(statusHist,
                          IF trade_record.opportunity.direction = "forward"
                          THEN ForwardPath ELSE ReversePath)
        /\ trade_record.status = statusHist[Len(statusHist)]

\* a forward trade that failed while selling on Binance, after both earlier
\* steps were recorded
C8_Witness ==
    /\ trade_record # NoTrade
    /\ trade_record.opportunity.direction = "forward"
    /\ statusHist = <<"pending", "buying_upbit", "transferring_to_binance",
                      "selling_binance", "failed">>
    /\ trade_record.steps = <<"buy_upbit", "transfer_to_binance">>

\* C9: fiat-rate cache policy -- a get_usd_krw_rate call made while the
\* cache age is below cache_duration returns the cached value and consults
\* no provider; otherwise the providers are tried in order and the first
\* success is returned and cached with the time of the call; when all
\* three fail the cached value is returned as stale only if it was fetched
\* less than the ceiling (1 hour) ago, and otherwise the call returns
\* unavailable.  A stale return leaves the timestamp alone, so every rate
\* returned was fetched less than the ceiling ago.
C9_FirstAnswer(fetch) ==
    IF fetch[1] # NoRate THEN 1
    ELSE IF fetch[2] # NoRate THEN 2
    ELSE IF fetch[3] # NoRate THEN 3
    ELSE 0

C10_RateMissing(rates) == \E i \in 1..Len(rates) : i <= 2 /\ rates[i] = NoRate

C10_SnapshotNeedsRate ==
    /\ premObs.op = "calculate_premium" =>
          (premObs.info # NoInfo <=>
              /\ premObs.upbit_ok
              /\ premObs.binance_ok
              /\ Len(premObs.rates) = 1
              /\ premObs.rates[1] # NoRate)
    /\ (premObs.op \in {"calculate_premium", "calculate_tether_premium"}
          /\ C10_RateMissing(premObs.rates)) =>
          premObs.info = NoInfo
    /\ (premObs.op = "check_arbitrage_opportunity"
          /\ C10_RateMissing(premObs.rates)) =>
          premObs.opp = NoOpp

\* an opportunity check whose rate request found every provider failing
\* and the cached rate too old, with both venue prices obtained
C10_Witness ==
    /\ premObs.op = "check_arbitrage_opportunity"
    /\ premObs.rates = <<NoRate>>
    /\ premObs.opp = NoOpp
    /\ cache # NoRate
    /\ now - fetched_at >= StaleCeiling

\* the result of a check_arbitrage_opportunity call that got both premiums
C11_Classified ==
    /\ premObs.op = "check_arbitrage_opportunity"
    /\ premObs.coin_info # NoInfo
    /\ premObs.tether_info # NoInfo

\* expectedProfit of the claim: |coinPremium| - tetherPremium for a negative
\* coin premium, coinPremium - tetherPremium otherwise
C11_ExpectedProfit ==
    LET c == premObs.coin_info.premium_rate
        u == premObs.tether_info.premium_rate
    IN  IF c.n < 0 THEN RSub(RNeg(c), u) ELSE RSub(c, u)

\* C11: check_arbitrage_opportunity classifies by the sign of the coin
\* premium and emits an opportunity iff expectedProfit > totalFees +
\* safetyMargin: forward with |coinPremium| - tetherPremium for a negative
\* premium, reverse with coinPremium - tetherPremium for a positive one,
\* nothing for a premium of exactly 0; a call yields one opportunity or none.
C11_Classification ==
    C11_Classified =>
        LET c       == premObs.coin_info.premium_rate
            emitted == premObs.opp # NoOpp
        IN  /\ emitted <=>
                  (c.n # 0 /\ RGt(C11_ExpectedProfit,
                                  RAdd(premObs.total_fees, premObs.safety_margin)))
            /\ emitted =>
                  /\ premObs.opp.coin_symbol = premObs.symbol
                  /\ premObs.opp.direction = (IF c.n < 0 THEN "forward" ELSE "reverse")
                  /\ premObs.opp.expected_profit = C11_ExpectedProfit
                  /\ premObs.opp.total_fees = premObs.total_fees
                  /\ premObs.opp.safety_margin = premObs.safety_margin

\* C11 witness: a reverse opportunity was emitted for a positive premium.
\* (The other cases of the claim are reached as well: C11_ZeroPremium,
\* C11_OnThreshold.)
C11_Witness ==
    /\ C11_Classified
    /\ premObs.coin_info.premium_rate.n > 0
    /\ premObs.opp # NoOpp
    /\ premObs.opp.direction = "reverse"

\* a coin premium of exactly 0 with a tether premium so low that the profit
\* rate would be above the threshold: nothing was emitted
C11_ZeroPremium ==
    /\ C11_Classified
    /\ premObs.coin_info.premium_rate.n = 0
    /\ RGt(C11_ExpectedProfit, RAdd(premObs.total_fees, premObs.safety_margin))
    /\ premObs.opp = NoOpp

\* a negative premium whose profit rate is exactly fees + margin: nothing
\* was emitted
C11_OnThreshold ==
    /\ C11_Classified
    /\ premObs.coin_info.premium_rate.n < 0
    /\ C11_ExpectedProfit = RAdd(premObs.total_fees, premObs.safety_margin)
    /\ premObs.opp = NoOpp

\* C12: opportunity necessity -- every opportunity returned by
\* check_arbitrage_opportunity has net_profit_rate = expected_profit -
\* total_fees - safety_margin > 0, so can_execute_trade never answers it
\* with "Trade opportunity no longer profitable".
C12_OpportunityNecessity ==
    (premObs.op = "check_arbitrage_opportunity" /\ premObs.opp # NoOpp) =>
        /\ RGt(net_profit_rate(premObs.opp), RZero)
        /\ (premObs.opp.expected_profit.n * premObs.opp.total_fees.d
               - premObs.opp.total_fees.n * premObs.opp.expected_profit.d)
                  * premObs.opp.safety_margin.d
             > premObs.opp.safety_margin.n
                  * (premObs.opp.expected_profit.d * premObs.opp.total_fees.d)
        /\ can_execute_trade(RM, premObs.opp, today).result[2]
              # "Trade opportunity no longer profitable"

\* C12 witness: an opportunity was returned whose size passes the first four
\* admission predicates, and can_execute_trade approves it.
C12_Witness ==
    /\ premObs.op = "check_arbitrage_opportunity"
    /\ premObs.opp # NoOpp
    /\ premObs.opp.trade_amount_krw <= max_single_trade_krw
    /\ can_execute_trade(RM, premObs.opp, today).result = <<TRUE, "Trade approved">>

\* 30% of the minimum of the four top-five-level sums, Binance's converted
\* to KRW at rate r, clamped to [lo, hi]
C13_DepthAmount(books, r, lo, hi) ==
    LET least == Min2(Min2(books.upbit_bid, books.upbit_ask),
                      Min2(books.binance_bid * r, books.binance_ask * r))
        part  == (least * 3) \div 10
    IN  IF part < lo THEN lo ELSE IF part > hi THEN hi ELSE part

\* C13 (stated as claimed): opportunity sizing -- whenever an opportunity is
\* produced, minKrw <= trade_amount_krw <= maxKrw; when both books were read
\* the amount is 30% of the minimum of the four top-five-level sums
\* (Binance's converted to KRW at a rate of the provider) clamped to
\* [minKrw, maxKrw]; when the books cannot be read the amount is minKrw.
C13_OpportunitySizing ==
    (premObs.op = "check_arbitrage_opportunity" /\ premObs.opp # NoOpp) =>
        LET amount == premObs.opp.trade_amount_krw
        IN  /\ premObs.min_amount <= amount
            /\ amount <= premObs.max_amount
            /\ premObs.books.ok =>
                  \E r \in ProviderResults \ {NoRate} :
                      amount = C13_DepthAmount(premObs.books, r,
                                   premObs.min_amount, premObs.max_amount)
            /\ ~premObs.books.ok => amount = premObs.min_amount

\* the two tests of the claim on the daily counters
C14_LossTest ==
    /\ daily_metrics.daily_volume_krw > 0
    /\ daily_metrics.daily_loss_krw * 100
          > emergency_stop_loss_percent * daily_metrics.daily_volume_krw
C14_FailureTest ==
    /\ daily_metrics.total_trades > 10
    /\ 2 * daily_metrics.failed_trades > daily_metrics.total_trades

\* C14: check_emergency_stop returns tripped iff (daily_volume_krw > 0 and
\* daily_loss_krw / daily_volume_krw * 100 > emergency_stop_loss_percent) or
\* (total_trades > 10 and failed_trades / total_trades > 0.5); with a volume
\* of 0 the loss test is skipped, with total_trades <= 10 the failure-rate
\* test is skipped.
C14_EmergencyStop ==
    lastResult # None =>
        /\ lastResult[1] = (C14_LossTest \/ C14_FailureTest)
        /\ (daily_metrics.daily_volume_krw = 0
               /\ daily_metrics.total_trades <= 10) => lastResult[1] = FALSE

\* C14 witness: 12 trades, 7 of them failed, and a loss of exactly 30% of the
\* volume: the stop was reported tripped, by the failure-rate test alone.
C14_Witness ==
    /\ lastResult # None
    /\ lastResult[1] = TRUE
    /\ daily_metrics.total_trades = 12 /\ daily_metrics.failed_trades = 7
    /\ daily_metrics.daily_volume_krw = 10 /\ daily_metrics.daily_loss_krw = 3

\* 10 trades with 7 failures and no volume: both tests skipped, not tripped
C14_Skipped ==
    /\ lastResult # None
    /\ lastResult[1] = FALSE
    /\ daily_metrics.total_trades = 10 /\ daily_metrics.failed_trades = 7
    /\ daily_metrics.daily_volume_krw = 0

\* the hook call a step has made, as CallRegisterTradeStart and
\* CallRegisterTradeComplete record it
C15_Started   == lastResult = None /\ lastResult' # None /\ Len(lastResult') = 3
C15_Completed == lastResult = None /\ lastResult' # None /\ Len(lastResult') = 4

\* C15: lifecycle hooks -- register_trade_start adds the opportunity's
\* trade_amount_krw to current_exposure_krw, increments total_trades by 1
\* and adds the ledger entry; register_trade_complete for an active trade
\* removes the entry and that trade's amount from exposure, adds the amount
\* to daily_volume_krw, increments exactly one of successful_trades /
\* failed_trades by 1, and adds the profit to daily_profit_krw only when
\* success and profit > 0, otherwise adds |profit| to daily_loss_krw.
C15_LifecycleHooks ==
    [][ /\ C15_Started =>
            LET id  == lastResult'[2]
                opp == lastResult'[3]
                m   == daily_metrics
            IN  /\ daily_metrics' =
                      [m EXCEPT !.current_exposure_krw = @ + opp.trade_amount_krw,
                                !.total_trades = @ + 1]
                /\ DOMAIN active_trades' = DOMAIN active_trades \cup {id}
                /\ active_trades'[id].opportunity = opp
                /\ \A i \in DOMAIN active_trades \ {id} :
                       active_trades'[i] = active_trades[i]
        /\ (C15_Completed /\ lastResult'[2] \in DOMAIN active_trades) =>
            LET id      == lastResult'[2]
                profit  == lastResult'[3]
                success == lastResult'[4]
                amt     == active_trades[id].opportunity.trade_amount_krw
                m       == daily_metrics
                n       == daily_metrics'
            IN  /\ DOMAIN active_trades' = DOMAIN active_trades \ {id}
                /\ \A i \in DOMAIN active_trades' :
                       active_trades'[i] = active_trades[i]
                /\ n.current_exposure_krw = m.current_exposure_krw - amt
                /\ n.daily_volume_krw = m.daily_volume_krw + amt
                /\ n.total_trades = m.total_trades
                /\ IF success
                   THEN /\ n.successful_trades = m.successful_trades + 1
                        /\ n.failed_trades = m.failed_trades
                   ELSE /\ n.successful_trades = m.successful_trades
                        /\ n.failed_trades = m.failed_trades + 1
                /\ IF success /\ profit > 0
                   THEN /\ n.daily_profit_krw = m.daily_profit_krw + profit
                        /\ n.daily_loss_krw = m.daily_loss_krw
                   ELSE /\ n.daily_profit_krw = m.daily_profit_krw
                        /\ n.daily_loss_krw
                             = m.daily_loss_krw + (IF profit < 0 THEN -profit ELSE profit)
      ]_vars

\* C15 witness: a successful trade with a negative result has just been
\* completed: it is off the ledger, counted as successful, and its result is
\* in daily_loss_krw while daily_profit_krw is still 0.
C15_Witness ==
    /\ lastResult # None /\ Len(lastResult) = 4
    /\ lastResult[3] = -1 /\ lastResult[4] = TRUE
    /\ lastResult[2] \notin DOMAIN active_trades
    /\ daily_metrics.successful_trades = 1
    /\ daily_metrics.failed_trades = 0
    /\ daily_metrics.daily_loss_krw = 1
    /\ daily_metrics.daily_profit_krw = 0
    /\ daily_metrics.daily_volume_krw > 0

C16_AtLimit ==
    /\ lastOpp # NoOpp
    /\ lastOpp.trade_amount_krw = max_single_trade_krw
    /\ lastResult = <<TRUE, "Trade approved">>

C18_Slippage ==
    slippage_call # NoObs =>
        LET e   == slippage_call.expected_price
            a   == slippage_call.actual_price
            ok  == slippage_call.result[1]
            pct == slippage_call.result[2]
            n   == max_slippage_percent.n
            d   == max_slippage_percent.d
        IN  IF slippage_call.side \in {"BUY", "buy"}
            THEN /\ ~ok <=> (a * 100 * d > e * (100 * d + n))
                 /\ pct.n * e = (a - e) * 100 * pct.d
            ELSE /\ ~ok <=> (a * 100 * d < e * (100 * d - n))
                 /\ pct.n * e = (e - a) * 100 * pct.d

\* C18 witness: a buy executed exactly at the limit (expected 1000, actual
\* 1005) was accepted with a slippage of 1/2 percent.
C18_Witness ==
    /\ slippage_call # NoObs
    /\ slippage_call.side = "BUY"
    /\ slippage_call.expected_price = 1000 /\ slippage_call.actual_price = 1005
    /\ slippage_call.result = <<TRUE, Rat(1, 2)>>

\* one tick above the limit the buy was refused
C18_OneTickAbove ==
    /\ slippage_call # NoObs
    /\ slippage_call.side = "BUY"
    /\ slippage_call.expected_price = 1000 /\ slippage_call.actual_price = 1006
    /\ slippage_call.result[1] = FALSE

(***************************************************************************)
(* C19: coins disabled after five consecutive failures                     *)
(***************************************************************************)
\* a coin is in the disabled set exactly when the requests for its market
\* data have failed in five consecutive passes
C19_DisabledAtFive ==
    \A coin \in Coins :
        coin \in failed_orderbook_coins <=> data_failures[coin] >= max_orderbook_failures

\* a disabled coin is never re-enabled
C19_NeverReenabled == failed_orderbook_coins \subseteq failed_orderbook_coins'

\* the premium loop prices no disabled coin
C19_Skipped ==
    (premObs' # premObs /\ premObs' # NoObs /\ premObs'.op = "calculate_premium") =>
        premObs'.symbol \notin failed_orderbook_coins

\* C19: a symbol is added to the disabled set exactly when its count of
\* consecutive order-book failures reaches 5, a success in between resetting
\* the count; once disabled it is skipped by the premium loop and is never
\* re-enabled.
C19_Disabling ==
    /\ []C19_DisabledAtFive
    /\ [][C19_NeverReenabled /\ C19_Skipped]_vars

(***************************************************************************)
(* C20: universe refresh                                                   *)
(***************************************************************************)
C20_Set(list) == {list[i] : i \in 1..Len(list)}

\* the coins both venues list, restricted to the configured coins when the
\* configured list is not empty
C20_Intersection(m) ==
    LET both == {coin \in C20_Set(m.krw.markets) : (coin \o "USDT") \in m.usdt.markets}
    IN  IF monitor_coins # << >> THEN both \cap Coins ELSE both

\* while the last initialisation or refresh is a successful one, the
\* monitored set is the intersection of the listings it read
C20_Refreshed ==
    (lastMarkets # NoObs /\ lastMarkets.usdt.ok /\ lastMarkets.krw.ok) =>
        C20_Set(monitor_list) = C20_Intersection(lastMarkets)

\* a refresh whose listing request raised leaves the monitored list as it was
C20_FailedRefreshKeeps ==
    (listPc = "sleeping" /\ lastMarkets' # lastMarkets /\ ~lastMarkets'.usdt.ok) =>
        monitor_list' = monitor_list

\* the coin the opportunity loop checks is a coin of the monitored list
C20_LoopChecksMonitored ==
    (/\ oppPc = "scan"
     /\ coinIdx <= Len(iter_list)
     /\ (coinIdx' = coinIdx + 1 \/ oppPc' = "step")) =>
        iter_list[coinIdx] \in C20_Set(monitor_list)

C21_InFlight ==
    /\ trade_record # NoTrade
    /\ trade_record.id \in DOMAIN active_trades
    /\ trade_record.status \notin {"completed", "failed"}

\* C21: active trades run concurrently with the opportunity loop -- while a
\* trade is in flight the loop is at its own positions, checking the coins
\* of a pass or sleeping between two passes, so that further opportunities
\* can be admitted until max_concurrent_trades are active.
C21_LoopRunsBesideTrades ==
    C21_InFlight => oppPc \in {"scan", "sleeping"}

(***************************************************************************)
(* C25: the staleness scenario.  The clock counts ticks of 300 s, so 30,   *)
(* 65 and 70 minutes are the ticks 6, 13 and 14.                           *)
(***************************************************************************)
\* a calculate_premium call that got both venue prices, made when the only
\* successful fetch of the rate is the one at time 0
C25_Scenario ==
    /\ premObs.op = "calculate_premium"
    /\ premObs.upbit_ok /\ premObs.binance_ok
    /\ cache # NoRate
    /\ fetched_at = 0

C25_AtThirtyMinutes ==
    /\ C25_Scenario
    /\ now = 6
    /\ premObs.info # NoInfo

\* C22: every withdrawal a strategy issues -- coin leg or USDT leg, whatever
\* the coin -- is for an amount strictly less than the free balance the step
\* read, so a residual remains on the source venue.
C22_ResidualRemains ==
    withdraw_call # NoObs => withdraw_call.amount < withdraw_call.free * 1000

\* the reverse trade in flight or last ended
C23_Reverse ==
    /\ trade_record # NoTrade
    /\ trade_record.opportunity.direction = "reverse"

\* EX-U free USDT >= trade_amount_krw / fiatRate * 1.01, the rate of the
\* first provider that answers being the fiat rate
C23_Funded ==
    /\ FirstSuccess(provider_answers) # 0
    /\ binance_usdt_free * 100 * provider_answers[FirstSuccess(provider_answers)]
         >= trade_record.opportunity.trade_amount_krw * 101 * 1000

\* an order or a withdrawal of the trade was placed, or is about to be
C23_PastPreflight ==
    \/ trade_record.stepIdx > 1
    \/ trade_record.steps # << >>
    \/ trade_record.status \notin {"pending", "failed"}

\* C23: reverse pre-flight -- a reverse trade places no order and no
\* withdrawal unless EX-U free USDT >= trade_amount_krw / fiatRate * 1.01;
\* when the balance is lower or the fiat rate is unavailable the trade ends
\* FAILED with an empty steps list.
C23_Preflight ==
    C23_Reverse =>
        /\ C23_PastPreflight => C23_Funded
        /\ ~C23_Funded /\ oppPc # "step" =>
               trade_record.status = "failed" /\ trade_record.steps = << >>

\* a reverse trade refused for a balance inside the 1% buffer
C23_Witness ==
    /\ C23_Reverse
    /\ provider_answers = <<1, 1, 1>> /\ binance_usdt_free = 1009
    /\ trade_record.status = "failed" /\ trade_record.steps = << >>
    /\ oppPc = "report"

\* everything but main()'s position
C24_BotState ==
    <<riskVars, today, obsVars, concVars, botVars, tradeVars, rateVars,
      monVars, listVars, stratVars, signals, stop_effects, lockVars, simVars>>

\* C24: shutdown is idempotent -- the second call of stop(), made by
\* main()'s finally block after the signal path, cancels no task, runs no
\* report and changes no state; a second signal calls nothing.
C24_StopIdempotent ==
    [][/\ mainPc = "await_bot" /\ mainPc' = "exited" =>
            C24_BotState' = C24_BotState
       /\ signals = 1 /\ signals' = 2 =>
            /\ stop_effects' = stop_effects
            /\ botVars' = botVars]_vars

\* the process has exited in paper mode after two signals and two calls of
\* stop(), with the tasks cancelled once and one report run
C24_Witness ==
    /\ mainPc = "exited"
    /\ signals = 2
    /\ dry_run
    /\ shutdown_in_progress
    /\ stop_effects = [cancels |-> NumTasks, reports |-> 1]

\* the callers inside the body of a locked operation
C26_InBody == {c \in LockCallers : lockPc[c] \in {"entered", "reset_done"}}

\* C26: the five public operations of the RiskManager are mutually
\* exclusive critical sections -- no two callers are inside their bodies at
\* once, and when a call leaves its body the counters and the ledger are
\* those of the call run alone on the state it found, so the result of any
\* interleaving is that of the calls in the order they took the lock.
C26_MutualExclusion ==
    /\ [](Cardinality(C26_InBody) <= 1 /\ (lock_locked <=> C26_InBody # {}))
    /\ [][\A c \in LockCallers :
            (lockPc[c] \in {"entered", "reset_done"} /\ lockPc'[c] = "idle") =>
                RM' = SerialEffect(lockOp[c], entry_rm)]_vars

\* one caller has passed the daily reset of can_execute_trade on a new day
\* while the other waits for the lock to register its trade
C26_Witness ==
    /\ lockPc[1] = "reset_done" /\ lockOp[1].op = "can_execute_trade"
    /\ last_reset_date = 1
    /\ lockPc[2] = "waiting" /\ lockOp[2].op = "register_trade_start"
    /\ lock_locked

\* C27: paper-mode persistence -- once a state file exists it reflects the
\* manager in memory after every mutating operation, and a manager
\* constructed from it holds the same available and locked balances, the
\* same counters and the same trade and transfer logs as the file.
C27_Persistence ==
    state_file.exists =>
        /\ \A e \in Exchanges, a \in Assets :
              /\ DecimalToStr(vbm.balances[e][a].available)
                     = state_file.balances[e][a].available
              /\ DecimalToStr(vbm.balances[e][a].locked)
                     = state_file.balances[e][a].locked
        /\ vbm.trade_counter = state_file.trade_counter
        /\ vbm.transfer_counter = state_file.transfer_counter
        /\ Len(vbm.trades) = Len(state_file.trades)
        /\ \A i \in 1..Len(vbm.trades) :
              vbm.trades[i].trade_id = state_file.trades[i].trade_id
        /\ Len(vbm.transfers) = Len(state_file.transfers)
        /\ \A i \in 1..Len(vbm.transfers) :
              vbm.transfers[i].transfer_id = state_file.transfers[i].transfer_id

\* the names of the steps that place a market order
C28_OrderSteps ==
    {ForwardSteps[i].name : i \in {j \in 1..Len(ForwardSteps) :
                                      ForwardSteps[j].kind \in {"order", "order_sleep"}}}
    \cup {ReverseSteps[i].name : i \in {j \in 1..Len(ReverseSteps) :
                                      ReverseSteps[j].kind \in {"order", "order_sleep"}}}

\* the venues' fills are refused by check_slippage on either side
C28_BeyondLimit ==
    /\ ~check_slippage(1000, 1000 + market_fill, "buy")[1]
    /\ ~check_slippage(1000, 1000 - market_fill, "sell")[1]

\* C28: slippage enforcement -- when a market order of a step executes at
\* a price worse than expected by more than the maximum slippage, the step
\* fails: it is not recorded, no later step runs and the trade ends failed.
C28_SlippageEnforced ==
    (trade_record # NoTrade /\ C28_BeyondLimit) =>
        /\ \A i \in 1..Len(trade_record.steps) :
              trade_record.steps[i] \notin C28_OrderSteps
        /\ trade_record.status # "completed"

\* a transfer wait returns to its step: confirmation is reported
C30_Confirms ==
    /\ oppPc \in {"polling", "poll_sleep"}
    /\ oppPc' \in {"step", "report"}
    /\ trade_record'.status # "failed"

\* C30: a transfer wait reports confirmation only when the destination
\* balance has risen since the start of the wait by at least 99% of the
\* transferred amount, or the deposit history holds the confirmed entry of
\* this transfer -- which the venue lists once it has credited it; an entry
\* that existed before the withdrawal does not confirm.
C30_ConfirmedByThisDeposit ==
    [][C30_Confirms =>
          \/ (dest_balance - initial_balance) * 100 >= TransferAmount * 99
          \/ dest_balance > 0]_vars

\* the step names of the two directions, in order
C29_Names(direction) ==
    IF direction = "forward"
    THEN <<"buy_upbit", "transfer_to_binance", "sell_binance",
           "transfer_usdt_to_upbit", "sell_usdt_upbit">>
    ELSE <<"check_usdt_balance", "buy_binance", "transfer_to_upbit",
           "sell_upbit", "buy_usdt_upbit", "transfer_usdt_to_binance">>

\* steps[] is a prefix of the direction's names that holds every step
\* before the current one, and all of them once the trade is COMPLETED
C29_Prefix ==
    trade_record # NoTrade =>
        LET names == C29_Names(trade_record.opportunity.direction)
            steps == trade_record.steps
        IN  /\ Len(steps) <= Len(names)
            /\ \A i \in 1..Len(steps) : steps[i] = names[i]
            /\ trade_record.stepIdx - 1 <= Len(steps)
            /\ Len(steps) <= trade_record.stepIdx
            /\ trade_record.status = "completed" => steps = names

\* within one trade steps[] only grows by appending, a step that has
\* started is not started again and the step index never goes back
C29_AppendOnly ==
    (trade_record # NoTrade /\ trade_record'.id = trade_record.id) =>
        /\ \/ trade_record'.steps = trade_record.steps
           \/ /\ Len(trade_record'.steps) = Len(trade_record.steps) + 1
              /\ SubSeq(trade_record'.steps, 1, Len(trade_record.steps))
                     = trade_record.steps
        /\ trade_record'.stepIdx \in {trade_record.stepIdx, trade_record.stepIdx + 1}
        /\ (oppPc = "step" /\ oppPc' = "step" /\ trade_record' # trade_record) =>
               trade_record'.stepIdx = trade_record.stepIdx + 1
        /\ trade_record'.opportunity = trade_record.opportunity

\* C29: steps are strictly sequential and append-only -- the recorded step
\* names are always a prefix of the direction's list, entries are never
\* removed or rewritten, each order or withdrawal is issued at most once per
\* trade, no step starts before the previous one succeeded, and the trade
\* is COMPLETED only when all steps are recorded.
C29_SequentialSteps == []C29_Prefix /\ [][C29_AppendOnly]_vars

\* the second trade of a run, a reverse one, COMPLETED with its six steps
C29_Witness ==
    /\ trade_record # NoTrade
    /\ trade_record.opportunity.direction = "reverse"
    /\ trade_record.status = "completed"
    /\ Len(trade_record.steps) = 6
    /\ tradeSeq = 2

\* C31: every call of execute_arbitrage, forward or reverse, returns with
\* status COMPLETED or FAILED when each venue call returns or raises -- a
\* transfer wait is left only by a confirming poll inside the ceiling or,
\* once the ceiling has elapsed, by the timeout error that fails the trade,
\* and it sleeps at most transfer_timeout / 30 s times between its polls,
\* also when no poll ever sees the deposit or every poll raises.
C31_InCall ==
    oppPc \in {"step", "order_sleep", "paper_sleep", "wait_start", "polling",
               "poll_sleep"}

C31_Returned ==
    /\ oppPc = "report"
    /\ trade_record.status \in {"completed", "failed"}

C31_WaitEnds ==
    (oppPc \in {"polling", "poll_sleep"} /\ oppPc' \notin {"polling", "poll_sleep"}) =>
        IF polls < TimeoutPolls
        THEN /\ DepositConfirmed(CurrentStep.wait, dest_balance,
                                 HistoryHasAcceptedDeposit)
             /\ trade_record'.status # "failed"
             /\ timedOutStep' = timedOutStep
        ELSE /\ oppPc' = "report"
             /\ trade_record'.status = "failed"
             /\ timedOutStep' = trade_record.stepIdx

C31_Termination ==
    /\ [](polls <= TimeoutPolls)
    /\ [][C31_WaitEnds]_vars
    /\ (C31_InCall ~> C31_Returned)

\* a reverse trade in live mode whose last wait saw no deposit at any poll
\* and has returned FAILED by the timeout error
C31_Witness ==
    /\ trade_record # NoTrade
    /\ trade_record.opportunity.direction = "reverse"
    /\ ~dry_run
    /\ timedOutStep = 6
    /\ polls = TimeoutPolls
    /\ dest_balance = 0
    /\ C31_Returned

\* C32 (stated as claimed): a fiat-rate outage does not disable symbols --
\* a symbol's failure counter advances, and a symbol enters the disabled
\* set, only in a pass in which a request for that symbol's own venue data
\* failed; a pass in which both venues answered and only the rate was
\* unavailable counts nothing.
C32_Count(counts, coin) == IF coin \in DOMAIN counts THEN counts[coin] ELSE 0

C32_OwnVenueDataFailed(obs, coin) ==
    /\ obs # NoObs
    /\ obs.op = "calculate_premium"
    /\ obs.symbol = coin
    /\ ~(obs.upbit_ok /\ obs.binance_ok)

C32_CountsVenueFailuresOnly ==
    \A coin \in Coins :
        (\/ C32_Count(orderbook_failure_counts', coin) >
               C32_Count(orderbook_failure_counts, coin)
         \/ (coin \in failed_orderbook_coins' /\ coin \notin failed_orderbook_coins))
            => C32_OwnVenueDataFailed(premObs', coin)

C32_RateOutageDisablesNothing == [][C32_CountsVenueFailuresOnly]_vars

\* C33 (stated as claimed): the opportunity loop never starts a trade
\* (register_trade_start) in a state where check_emergency_stop would
\* report tripped -- on the counters as they are when the trade is
\* registered, that is after the daily roll of the admission call.  In
\* particular, when the trade of one symbol has tripped the stop, no later
\* symbol of the same pass over the coins is admitted or traded.
C33_TradeStarts == tradeSeq' = tradeSeq + 1

C33_NoStartWhileTripped ==
    [][C33_TradeStarts => ~check_emergency_stop(check_daily_reset(RM, today))[1]]_vars

\* C34 (stated as claimed): in live mode a credit of the withdrawn amount
\* at the destination, landing at any moment after the withdrawal was
\* accepted and before the ceiling, makes the forward strategy's wait
\* report confirmation -- also when it lands before the wait takes its
\* initial balance snapshot: no wait of a forward trade whose snapshot
\* already held the credit ends by the timeout error.
C34_ForwardWaitTimedOut ==
    /\ trade_record # NoTrade
    /\ trade_record.opportunity.direction = "forward"
    /\ ~dry_run
    /\ timedOutStep # 0
    /\ timedOutStep = trade_record.stepIdx

C34_CreditedBeforeSnapshot ==
    /\ initial_balance = TransferAmount
    /\ dest_balance = TransferAmount

C34_EarlyCreditConfirms ==
    C34_ForwardWaitTimedOut => ~C34_CreditedBeforeSnapshot

\* C35 (stated as claimed): when every trade is started only after an
\* approving can_execute_trade for its opportunity and is later completed,
\* daily_volume_krw never exceeds max_daily_volume_krw within one day, also
\* when several approved trades are active at the same time.
C35_DailyVolumeWithinLimit ==
    daily_metrics.daily_volume_krw <= max_daily_volume_krw

\* C36 (stated as claimed): at every reachable RiskManager state
\* successful_trades + failed_trades + (number of active trades) =
\* total_trades, so failed_trades never exceeds total_trades and the
\* failure rate of the emergency stop lies between 0 and 100% -- in every
\* state, including after a daily roll that occurs while trades are active.
C36_CountersBalance ==
    /\ daily_metrics.successful_trades + daily_metrics.failed_trades
          + Cardinality(DOMAIN active_trades) = daily_metrics.total_trades
    /\ daily_metrics.failed_trades <= daily_metrics.total_trades

\* C37: register_trade_complete for a trade id that is not in
\* active_trades (never started, or already completed) changes no counter
\* and no ledger entry, so a trade that the orchestrator completes twice --
\* the completion call, then the call of its error handler -- is counted
\* once: one of the two outcome counters goes up by one, by the outcome of
\* the first call, the amount moves from exposure to volume once, and the
\* loss takes the first call's result only.
C37_UnknownIdNoEffect ==
    \A id \in (0..MaxTrades) \ DOMAIN active_trades :
       \A profit \in BotProfits, success \in BOOLEAN :
          register_trade_complete(RM, id, profit, success) = RM

C37_Reported == oppPc = "report" /\ oppPc' = "scan"

C37_CountedOnce ==
    C37_Reported =>
        LET m   == daily_metrics
            amt == trade_record.opportunity.trade_amount_krw
            success == trade_record.status = "completed"
        IN  /\ trade_record.id \in DOMAIN active_trades
            /\ active_trades' =
                  [i \in DOMAIN active_trades \ {trade_record.id} |-> active_trades[i]]
            /\ completeEffects' = completeEffects + 1
            /\ daily_metrics'.total_trades = m.total_trades
            /\ daily_metrics'.current_exposure_krw = m.current_exposure_krw - amt
            /\ daily_metrics'.daily_volume_krw = m.daily_volume_krw + amt
            /\ daily_metrics'.successful_trades =
                  m.successful_trades + (IF success THEN 1 ELSE 0)
            /\ daily_metrics'.failed_trades =
                  m.failed_trades + (IF success THEN 0 ELSE 1)
            /\ daily_metrics'.daily_profit_krw + daily_metrics'.daily_loss_krw
                  <= m.daily_profit_krw + m.daily_loss_krw + 1

C37_CompleteTwice ==
    /\ []C37_UnknownIdNoEffect
    /\ [][C37_CountedOnce]_vars

\* a trade that completed with a profit has been reported and then
\* reported again by the error handler as failed with profit 0: it counts
\* as one successful trade and no failed one
C37_Witness ==
    /\ trade_record # NoTrade
    /\ trade_record.status = "completed"
    /\ oppPc = "scan"
    /\ lastComplete = [trade_id |-> trade_record.id, profit_krw |-> 0,
                       success |-> FALSE]
    /\ completeEffects = 1
    /\ trade_record.id \notin DOMAIN active_trades
    /\ daily_metrics.successful_trades = 1
    /\ daily_metrics.failed_trades = 0
    /\ daily_metrics.daily_profit_krw = 1

\* the call a step of the further caller of SpecReads has made
C38_Returned == lastResult = None /\ lastResult' # None
C38_CalledCanExecuteTrade == C38_Returned /\ lastOpp' # NoOpp
C38_CalledCheckEmergencyStop == C38_Returned /\ lastOpp' = NoOpp
C38_CalledCheckSlippage == slippage_call = NoObs /\ slippage_call' # NoObs
C38_CalledGetTradingMetrics ==
    /\ lastResult = None /\ lastResult' = None
    /\ slippage_call' = slippage_call
    /\ callerPc' = callerPc
    /\ today' = today

C38_KeepsCounters ==
    /\ active_trades' = active_trades
    /\ daily_metrics' = daily_metrics

C38_KeepsCountersButRoll ==
    /\ active_trades' = active_trades
    /\ daily_metrics'.current_exposure_krw = daily_metrics.current_exposure_krw
    /\ IF today > last_reset_date
       THEN daily_metrics' = ZeroMetrics(daily_metrics.current_exposure_krw)
       ELSE daily_metrics' = daily_metrics

\* a second can_execute_trade for the same opportunity, made on the same
\* day with no register call in between, returns what the first returned
C38_NoReservation ==
    \A opp \in OppInputs :
        LET first  == can_execute_trade(RM, opp, today)
            second == can_execute_trade(first.rm, opp, today)
        IN  /\ second.result = first.result
            /\ second.rm = first.rm

\* C38 (stated as claimed): can_execute_trade (apart from the daily roll it
\* may perform), check_emergency_stop, check_slippage and
\* get_trading_metrics leave active_trades and every daily counter
\* unchanged; an approval reserves no capacity, so two consecutive
\* can_execute_trade calls with the same opportunity and no register call
\* in between on the same day return the same result.
C38_ReadsLeaveCounters ==
    /\ []C38_NoReservation
    /\ [][ /\ C38_CalledCanExecuteTrade => C38_KeepsCountersButRoll
           /\ C38_CalledCheckEmergencyStop => C38_KeepsCounters
           /\ C38_CalledCheckSlippage => C38_KeepsCounters
           /\ C38_CalledGetTradingMetrics => C38_KeepsCounters ]_vars

\* C38 (amended): the same, with get_trading_metrics too leaving the daily
\* counters unchanged apart from the daily roll it may perform: on the
\* first call after a change of date either operation zeroes the daily
\* counters and keeps the exposure and the ledger.
C38_ReadsLeaveCountersButRoll ==
    /\ []C38_NoReservation
    /\ [][ /\ C38_CalledCanExecuteTrade => C38_KeepsCountersButRoll
           /\ C38_CalledCheckEmergencyStop => C38_KeepsCounters
           /\ C38_CalledCheckSlippage => C38_KeepsCounters
           /\ C38_CalledGetTradingMetrics => C38_KeepsCountersButRoll ]_vars

\* two trades were started, the date changed, and the further caller's
\* calls came first on the new date: the daily counters are zero, the
\* exposure and the ledger are those of the two trades, and the approval
\* can_execute_trade has just returned has added nothing to them
C38_Witness ==
    /\ today > 0
    /\ last_reset_date = today
    /\ lastOpp # NoOpp
    /\ lastOpp.trade_amount_krw = max_single_trade_krw
    /\ lastResult = <<TRUE, "Trade approved">>
    /\ \A c \in VolumeCallers : callerPc[c] = "registered"
    /\ Cardinality(DOMAIN active_trades) = 2
    /\ daily_metrics = ZeroMetrics(2 * max_single_trade_krw)

\* C39: a VirtualBalanceManager operation that fails -- lock_balance or
\* unlock_balance returning False, execute_trade or simulate_transfer
\* returning None or raising, such as a transfer to a venue the manager has
\* no balance table of -- leaves every balance, both logs and both counters
\* as they were.
C39_FailedOperationChangesNothing ==
    [][sim_result' \in {"refused", "raised"} => vbm' = vbm]_vars

\* every available and locked balance of the manager is at least 0
C40_AllNonNegative ==
    \A e \in Exchanges, a \in Assets :
        /\ vbm.balances[e][a].available >= 0
        /\ vbm.balances[e][a].locked >= 0

\* the step is a simulate_transfer that returned its transfer, the entry it
\* appended to the log
C40_TransferReturned == Len(vbm'.transfers) = Len(vbm.transfers) + 1

\* the transfer the step returned has lowered the source by the amount and
\* the fee and raised the destination by the amount
C40_TransferMoves ==
    LET t == vbm'.transfers[Len(vbm'.transfers)]
    IN  /\ vbm'.balances[t.from_exchange][t.asset].available
               = vbm.balances[t.from_exchange][t.asset].available
                     - (t.amount + t.fee)
        /\ vbm'.balances[t.to_exchange][t.asset].available
               = vbm.balances[t.to_exchange][t.asset].available + t.amount

\* the step is an execute_trade that returned a trade whose fee is more
\* than its total_cost
C40_FeeAboveCost ==
    /\ Len(vbm'.trades) = Len(vbm.trades) + 1
    /\ LET t == vbm'.trades[Len(vbm'.trades)] IN t.fee > t.total_cost

\* every balance that was at least 0 before the step is at least 0 after it
C40_StaysNonNegative ==
    \A e \in Exchanges, a \in Assets :
        /\ vbm.balances[e][a].available >= 0
               => vbm'.balances[e][a].available >= 0
        /\ vbm.balances[e][a].locked >= 0 => vbm'.balances[e][a].locked >= 0

====
